---- MODULE Spec2Model ----
(***************************************************************************)
(* Heart of Five: the card and meld rules (models/Card, models/Meld), the  *)
(* trick/round state machine (services/GameState) and the turn loop of     *)
(* the command-line controller (GameController), with its three bots.      *)
(*                                                                         *)
(* A card is its notation, a pair of one-character strings: <<"3","H">>    *)
(* is the 3 of hearts.  Every other field of a Card is computed from the   *)
(* notation by the CardModel constructor, modelled by rank, suit, isJoker  *)
(* and is5H below.  An optional value (Meld | null, lastPlay | undefined)  *)
(* is a sequence of length 0 or 1.                                         *)
(***************************************************************************)
EXTENDS Integers, Sequences, FiniteSets, TLC

\* ------------------------------------------------------------------------
\* Generic helpers standing for the JavaScript array built-ins the code uses

Range(s) == {s[i] : i \in 1..Len(s)}

\* Array.prototype.indexOf, 0-based, -1 when absent
RECURSIVE IndexFrom(_, _, _)
IndexFrom(s, x, i) ==
  IF i > Len(s) THEN -1 ELSE IF s[i] = x THEN i - 1 ELSE IndexFrom(s, x, i + 1)

IndexOf(s, x) == IndexFrom(s, x, 1)

\* Array.prototype.sort((a, b) => Key(a) - Key(b)): ascending and stable, so the
\* element at index i lands behind every element with a smaller key and every
\* earlier element with the same key
SortPositions(keys) ==
  [i \in 1..Len(keys) |->
     Cardinality({j \in 1..Len(keys) :
                    \/ keys[j] < keys[i]
                    \/ keys[j] = keys[i] /\ j < i}) + 1]

PlaceAt(s, pos) == [k \in 1..Len(s) |-> s[CHOOSE i \in 1..Len(s) : pos[i] = k]]

\* (s \o <<>> is s itself; it has TLC hold the list as a tuple and not work
\* the list out again at every index read)
SortByKey(s, Key(_)) ==
  PlaceAt(s, SortPositions([i \in 1..Len(s) |-> Key(s[i])] \o <<>>) \o <<>>) \o <<>>

RECURSIVE Concat(_)
Concat(ss) == IF ss = <<>> THEN <<>> ELSE Head(ss) \o Concat(Tail(ss))

\* The number of elements of s equal to x
Count(s, x) == Cardinality({i \in 1..Len(s) : s[i] = x})

\* ------------------------------------------------------------------------
\* models/Card.ts

\* The two joker notations the CardModel constructor recognises
JokerNotations == {<<"J", "1">>, <<"J", "2">>}

isJoker(c) == c \in JokerNotations

is5H(c) == c = <<"5", "H">>

\* A joker's rank is its whole notation, any other card's its first character
rank(c) == IF isJoker(c) THEN c[1] \o c[2] ELSE c[1]

\* A joker carries no suit, any other card its second character
suit(c) == IF isJoker(c) THEN "none" ELSE c[2]

singleRanks ==
  <<"3", "4", "5", "6", "7", "8", "9", "T", "J", "Q", "K", "A", "2", "J1", "J2">>

runRanks == <<"2", "3", "4", "5", "6", "7", "8", "9", "T", "J", "Q", "K", "A">>

\* A faulty variant of getSingleRankValue: the 5H counts as any other five
getSingleRankValueNominal(c) ==
  IF IndexOf(singleRanks, rank(c)) >= 0 THEN IndexOf(singleRanks, rank(c)) + 1 ELSE 0

getSingleRankValue(c) ==
  IF is5H(c) THEN 16
  ELSE IF IndexOf(singleRanks, rank(c)) >= 0 THEN IndexOf(singleRanks, rank(c)) + 1
       ELSE 0

\* A faulty variant of getRunRankValue: the Ace is the lowest rank of a run
getRunRankValueAceLow(c) ==
  IF isJoker(c) THEN -1
  ELSE IF IndexOf(<<"A">> \o SubSeq(runRanks, 1, 12), rank(c)) >= 0
       THEN IndexOf(<<"A">> \o SubSeq(runRanks, 1, 12), rank(c)) + 1
       ELSE 0

getRunRankValue(c) ==
  IF isJoker(c) THEN -1
  ELSE IF IndexOf(runRanks, rank(c)) >= 0 THEN IndexOf(runRanks, rank(c)) + 1
       ELSE 0

sortBySingleRank(cards) == SortByKey(cards, getSingleRankValue)

suitOrder == <<"C", "D", "H", "S">>

\* The key sortBySuit's comparator orders by: jokers last (J1 before J2), then
\* suit, then single-play value
SuitSortKey(c) ==
  IF isJoker(c) THEN (IF rank(c) = "J1" THEN 1000 ELSE 1001)
  ELSE IndexOf(suitOrder, suit(c)) * 20 + getSingleRankValue(c)

sortBySuit(cards) == SortByKey(cards, SuitSortKey)

\* ------------------------------------------------------------------------
\* A Record<string, ...> keyed by rank: Object.keys / Object.values list the
\* integer-like keys ("2".."9") first, in ascending numeric order, then the
\* other keys in insertion order

Digits == <<"0", "1", "2", "3", "4", "5", "6", "7", "8", "9">>

IsIntegerKey(k) == IndexOf(Digits, k) >= 0

\* The ranks of the cards, each once, in order of first appearance
AddKey(keys, r) == IF r \in Range(keys) THEN keys ELSE Append(keys, r)

RECURSIVE InsertionOrder(_)
InsertionOrder(cards) ==
  IF cards = <<>> THEN <<>>
  ELSE AddKey(InsertionOrder(SubSeq(cards, 1, Len(cards) - 1)), rank(cards[Len(cards)]))

\* The order in which a record lists the keys inserted in the order `keys`
KeyOrder(keys) ==
  SortByKey(SelectSeq(keys, IsIntegerKey), LAMBDA k : IndexOf(Digits, k))
    \o SelectSeq(keys, LAMBDA k : ~IsIntegerKey(k))

ObjectKeys(cards) == KeyOrder(InsertionOrder(cards))

CardsOfRank(cards, r) == SelectSeq(cards, LAMBDA c : rank(c) = r)

\* Object.values(groupByRank(cards)): the groups, each in the cards' order
GroupsOf(cards, keys) == [i \in 1..Len(keys) |-> CardsOfRank(cards, keys[i])] \o <<>>

groupByRank(cards) == GroupsOf(cards, ObjectKeys(cards))

\* Object.entries(getRankCounts(cards)) as <<rank, count>> pairs
CountsOf(cards, keys) ==
  [i \in 1..Len(keys) |-> <<keys[i], Len(CardsOfRank(cards, keys[i]))>>] \o <<>>

getRankCounts(cards) == CountsOf(cards, ObjectKeys(cards))

\* ------------------------------------------------------------------------
\* models/Meld.ts: MeldDetector

isPair(cards) ==
  /\ Len(cards) = 2
  /\ ~(isJoker(cards[1]) \/ isJoker(cards[2]))
  /\ rank(cards[1]) = rank(cards[2])

isTriple(cards) ==
  /\ Len(cards) = 3
  /\ rank(cards[1]) = rank(cards[2])
  /\ rank(cards[2]) = rank(cards[3])

isFourOfKind(cards) ==
  /\ Len(cards) = 4
  /\ \A i \in 1..Len(cards) : rank(cards[i]) = rank(cards[1])

\* counts.includes(3) && counts.includes(2) over the values of the rank counts
IncludesThreeAndTwo(counts) ==
  /\ \E i \in 1..Len(counts) : counts[i][2] = 3
  /\ \E i \in 1..Len(counts) : counts[i][2] = 2

isFullHouse(cards) ==
  /\ Len(cards) = 5
  /\ IncludesThreeAndTwo(getRankCounts(cards))

\* The body shared by isPairSisters (size 2) and isTripleSisters (size 3): every
\* rank group has `size` cards and the groups' single-play values, taken from
\* each group's first card after sortBySingleRank, rise by exactly 1
GroupValues(groups) ==
  SortByKey([i \in 1..Len(groups) |-> getSingleRankValue(groups[i][1])], LAMBDA v : v)

RisingByOne(values) == \A i \in 2..Len(values) : values[i] - values[i - 1] = 1

GroupsAreSisters(groups, size) ==
  /\ \A i \in 1..Len(groups) : Len(groups[i]) = size
  /\ RisingByOne(GroupValues(groups))

IsSistersOfSize(cards, size) ==
  /\ Len(cards) % size = 0
  /\ GroupsAreSisters(groupByRank(sortBySingleRank(cards)), size)

isPairSisters(cards) == IsSistersOfSize(cards, 2)

isTripleSisters(cards) == IsSistersOfSize(cards, 3)

isSisters(cards) ==
  IF Len(cards) >= 6 /\ Len(cards) % 3 = 0 /\ isTripleSisters(cards) THEN TRUE
  ELSE IF Len(cards) >= 4 /\ Len(cards) % 2 = 0 THEN isPairSisters(cards)
       ELSE FALSE

Consecutive(cards) ==
  \A i \in 2..Len(cards) : getRunRankValue(cards[i]) - getRunRankValue(cards[i - 1]) = 1

\* The T-J-Q-K-A special case, then the normal consecutive check
SortedIsRun(sortedCards) ==
  \/ /\ rank(sortedCards[1]) = "A"
     /\ rank(sortedCards[Len(sortedCards)]) = "K"
     /\ Consecutive(Tail(sortedCards))
     /\ rank(Tail(sortedCards)[1]) = "T"
  \/ Consecutive(sortedCards)

isRun(cards) ==
  IF Len(cards) < 5 THEN FALSE
  ELSE IF \E i \in 1..Len(cards) : isJoker(cards[i]) THEN FALSE
  ELSE IF \E i \in 1..Len(cards) : getRunRankValue(cards[i]) <= 0 THEN FALSE
  ELSE SortedIsRun(SortByKey(cards, getRunRankValue))

isStraightFlush(cards) ==
  /\ isRun(cards)
  /\ \A i \in 1..Len(cards) : suit(cards[i]) = suit(cards[1])

\* "null" stands for the null result
detectMeldType(cards) ==
  IF Len(cards) = 0 THEN "null"
  ELSE IF Len(cards) = 1 THEN "single"
  ELSE IF Len(cards) = 2 /\ isPair(cards) THEN "pair"
  ELSE IF Len(cards) = 3 /\ isTriple(cards) THEN "triple"
  ELSE IF Len(cards) = 4 /\ isFourOfKind(cards) THEN "fourOfKindBomb"
  ELSE IF Len(cards) = 5 /\ isFullHouse(cards) THEN "fullHouse"
  ELSE IF isSisters(cards) THEN "sisters"
  ELSE IF Len(cards) >= 5 /\ isStraightFlush(cards) THEN "straightFlushBomb"
  ELSE IF Len(cards) >= 5 /\ isRun(cards) THEN "run"
  ELSE "null"

\* The fullHouse case of getMeldStrength: the first rank counted 3 times decides,
\* through the first card of the meld that has this rank
TripleCardStrength(cards, card) ==
  IF /\ card = <<"5", "H">>
     /\ \E i \in 1..Len(cards) : rank(cards[i]) = "5" /\ is5H(cards[i])
  THEN 16
  ELSE getSingleRankValue(card)

TripleStrength(cards, tripleRanks) ==
  IF tripleRanks = <<>> THEN 0
  ELSE TripleCardStrength(cards, CardsOfRank(cards, tripleRanks[1][1])[1])

FullHouseStrength(cards) ==
  TripleStrength(cards, SelectSeq(getRankCounts(cards), LAMBDA e : e[2] = 3))

\* getMeldStrength reads only the type and the cards of its argument
getMeldStrength(type, cards) ==
  CASE type \in {"single", "pair", "triple"} -> getSingleRankValue(cards[1])
    [] type = "fullHouse" -> FullHouseStrength(cards)
    [] type = "sisters" ->
         getSingleRankValue(sortBySingleRank(cards)[Len(cards)])
    [] type \in {"run", "straightFlushBomb"} ->
         getRunRankValue(SortByKey(cards, getRunRankValue)[Len(cards)])
    [] type = "fourOfKindBomb" -> getSingleRankValue(cards[1])
    [] OTHER -> 0

isBomb(meldType) == meldType = "fourOfKindBomb" \/ meldType = "straightFlushBomb"

\* A faulty variant of canBeat: the lengths of runs are not compared
canBeatAnyLength(currentMeld, previousMeld) ==
  IF isBomb(currentMeld.type) /\ ~isBomb(previousMeld.type) THEN TRUE
  ELSE IF currentMeld.type = "straightFlushBomb" /\ previousMeld.type = "fourOfKindBomb"
       THEN TRUE
  ELSE IF currentMeld.type # previousMeld.type THEN FALSE
  ELSE getMeldStrength(currentMeld.type, currentMeld.cards)
         > getMeldStrength(previousMeld.type, previousMeld.cards)

canBeat(currentMeld, previousMeld) ==
  IF isBomb(currentMeld.type) /\ ~isBomb(previousMeld.type) THEN TRUE
  ELSE IF currentMeld.type = "straightFlushBomb" /\ previousMeld.type = "fourOfKindBomb"
       THEN TRUE
  ELSE IF currentMeld.type # previousMeld.type THEN FALSE
  ELSE IF /\ currentMeld.type \in {"run", "straightFlushBomb"}
          /\ Len(currentMeld.cards) # Len(previousMeld.cards)
       THEN FALSE
  ELSE getMeldStrength(currentMeld.type, currentMeld.cards)
         > getMeldStrength(previousMeld.type, previousMeld.cards)

\* Meld | null: <<>> is null
MeldOfType(type, cards) ==
  IF type = "null" THEN <<>>
  ELSE <<[type |-> type, cards |-> cards, strength |-> getMeldStrength(type, cards)]>>

createMeld(cards) == MeldOfType(detectMeldType(cards), cards)

\* ------------------------------------------------------------------------
\* models/Deck.ts

ranks == <<"3", "4", "5", "6", "7", "8", "9", "T", "J", "Q", "K", "A", "2">>

suits == <<"C", "D", "H", "S">>

\* The ranks the model's deck is built over (the program's deck has all 13)
DeckRanks == SubSeq(ranks, 1, 4)

\* initializeDeck(true): every rank with every suit, then the two notations the
\* deck passes to CardModel.fromNotation for its jokers
DeckOf(deckRanks) ==
  Concat([r \in 1..Len(deckRanks) |-> [u \in 1..Len(suits) |-> <<deckRanks[r], suits[u]>>]])
    \o << <<"j", "j">>, <<"J", "J">> >>

initializeDeck == DeckOf(DeckRanks)

\* shuffle: for i from the last index down to 1, swap the cards at i and
\* j = floor(Math.random() * (i + 1)); draws[i] is the j drawn at step i
\* (indices 0-based, as in the code)
Swap(cards, i, j) ==
  [k \in 1..Len(cards) |->
     IF k = i + 1 THEN cards[j + 1] ELSE IF k = j + 1 THEN cards[i + 1] ELSE cards[k]]

RECURSIVE ShuffleFrom(_, _, _)
ShuffleFrom(cards, draws, i) ==
  IF i < 1 THEN cards ELSE ShuffleFrom(Swap(cards, i, draws[i]), draws, i - 1)

shuffle(cards, draws) == ShuffleFrom(cards, draws, Len(cards) - 1)

\* A faulty variant of dealToPlayers: the last card of the deck is not dealt
dealToPlayersButLast(cards, count) ==
  [h \in 1..count |->
     SelectSeq(cards, LAMBDA c : /\ IndexOf(cards, c) % count = h - 1
                                 /\ IndexOf(cards, c) < Len(cards) - 1)]

\* dealToPlayers: card number index (0-based) goes to hand index % playerCount
dealToPlayers(cards, playerCount) ==
  [h \in 1..playerCount |->
     SelectSeq(cards, LAMBDA c : IndexOf(cards, c) % playerCount = h - 1)]

\* ------------------------------------------------------------------------
\* models/Player.ts: PlayerModel

hasCards(hand, cards) == \A i \in 1..Len(cards) : cards[i] \in Range(hand)

removeCards(hand, cards) == SelectSeq(hand, LAMBDA c : c \notin Range(cards))

hasCard(hand, notation) == notation \in Range(hand)

\* ------------------------------------------------------------------------
\* services/GameState.ts: GameStateManager.  The operators take the manager's
\* state record and give the record after the call (and the call's result).

PlayerIds == <<"human", "alice", "bob", "cat">>

playerCount == 4

\* findIndex over state.players, 0-based
PlayerIndex(s, id) == IndexOf([i \in 1..Len(s.players) |-> s.players[i].id], id)

initializeGame ==
  [round |-> 1,
   players |-> [i \in 1..playerCount |->
                  [id |-> PlayerIds[i], hand |-> <<>>, wins |-> 0, losses |-> 0,
                   isBot |-> i > 1]],
   currentPlayerIndex |-> 0,
   currentLeader |-> "",
   establishedMeldType |-> "undefined",
   lastPlay |-> <<>>,
   consecutivePasses |-> 0,
   deck |-> <<>>,
   playHistory |-> <<>>]

\* dealCards once the deck has been shuffled into `shuffled`: each hand is
\* cleared, receives its cards and is sorted by addCards
GiveHands(s, hands, shuffled) ==
  [s EXCEPT !.players = [i \in 1..Len(s.players) |->
                           [s.players[i] EXCEPT !.hand = sortBySingleRank(hands[i])]],
            !.deck = shuffled]

dealCards(s, shuffled) == GiveHands(s, dealToPlayers(shuffled, Len(s.players)), shuffled)

\* The index of the first player holding the 3H, 0 when nobody does
FirstOrZero(holders) ==
  IF holders = {} THEN 0
  ELSE (CHOOSE i \in holders : \A j \in holders : i <= j) - 1

findStartingPlayer(s) ==
  FirstOrZero({i \in 1..Len(s.players) : hasCard(s.players[i].hand, <<"3", "H">>)})

\* previousRoundWinnerId is "undefined" when the argument is omitted
\* this.state.round++ and the four resets of startNewRound
CountRound(s) ==
  [s EXCEPT !.round = @ + 1,
            !.playHistory = <<>>,
            !.lastPlay = <<>>,
            !.establishedMeldType = "undefined",
            !.consecutivePasses = 0]

\* A faulty variant of the choice of the starting player: the previous round's
\* winner is ignored
StartingPlayerIndexNoWinner(dealt, previousRoundWinnerId) ==
  IF dealt.round = 1 THEN findStartingPlayer(dealt) ELSE 0

\* The starting player startNewRound picks once the cards are dealt; the round
\* number it tests is the one already counted up
StartingPlayerIndex(dealt, previousRoundWinnerId) ==
  IF dealt.round = 1 THEN findStartingPlayer(dealt)
  ELSE IF previousRoundWinnerId # "undefined"
       THEN (IF PlayerIndex(dealt, previousRoundWinnerId) # -1
             THEN PlayerIndex(dealt, previousRoundWinnerId) ELSE 0)
       ELSE 0

LeadFrom(dealt, startingPlayerIndex) ==
  [dealt EXCEPT !.currentPlayerIndex = startingPlayerIndex,
                !.currentLeader = dealt.players[startingPlayerIndex + 1].id]

StartDealt(dealt, previousRoundWinnerId) ==
  LeadFrom(dealt, StartingPlayerIndex(dealt, previousRoundWinnerId))

startNewRound(s, previousRoundWinnerId, shuffled) ==
  StartDealt(dealCards(CountRound(s), shuffled), previousRoundWinnerId)

getCurrentPlayer(s) == s.players[s.currentPlayerIndex + 1]

\* Faulty variants of isLegalPlay, used to probe the properties below: one lets
\* any bomb through without comparing it with the last play, one takes only
\* melds of the established type
isLegalPlayAnyBomb(s, meld) ==
  IF s.establishedMeldType = "undefined" THEN TRUE
  ELSE IF meld.type = "fourOfKindBomb" \/ meld.type = "straightFlushBomb" THEN TRUE
  ELSE IF meld.type # s.establishedMeldType THEN FALSE
  ELSE IF s.lastPlay # <<>> THEN canBeat(meld, s.lastPlay[1].meld)
  ELSE TRUE

isLegalPlaySameTypeOnly(s, meld) ==
  IF s.establishedMeldType = "undefined" THEN TRUE
  ELSE IF meld.type # s.establishedMeldType THEN FALSE
  ELSE IF s.lastPlay # <<>> THEN canBeat(meld, s.lastPlay[1].meld)
  ELSE TRUE

isLegalPlay(s, meld) ==
  IF s.establishedMeldType = "undefined" THEN TRUE
  ELSE IF meld.type = "fourOfKindBomb" \/ meld.type = "straightFlushBomb"
       THEN (IF s.lastPlay # <<>> THEN canBeat(meld, s.lastPlay[1].meld) ELSE TRUE)
  ELSE IF meld.type # s.establishedMeldType THEN FALSE
  ELSE IF s.lastPlay # <<>> THEN canBeat(meld, s.lastPlay[1].meld)
  ELSE TRUE

\* Faulty variants of playMeld: one leaves consecutivePasses as it is, one takes
\* the cards out of the hand before it looks at the legality of the meld
playMeldKeepingPasses(s, p, meld) ==
  IF ~hasCards(s.players[p].hand, meld.cards) THEN <<FALSE, s>>
  ELSE IF ~isLegalPlay(s, meld) THEN <<FALSE, s>>
  ELSE <<TRUE,
         [s EXCEPT !.players[p].hand = removeCards(@, meld.cards),
                   !.lastPlay = <<[player |-> s.players[p].id, meld |-> meld]>>,
                   !.establishedMeldType =
                      IF @ = "undefined" THEN meld.type ELSE @,
                   !.playHistory = Append(@, [player |-> s.players[p].id,
                                              action |-> "play",
                                              meld |-> <<meld>>])]>>

playMeldRemovingFirst(s, p, meld) ==
  IF ~hasCards(s.players[p].hand, meld.cards) THEN <<FALSE, s>>
  ELSE IF ~isLegalPlay(s, meld)
       THEN <<FALSE, [s EXCEPT !.players[p].hand = removeCards(@, meld.cards)]>>
  ELSE <<TRUE,
         [s EXCEPT !.players[p].hand = removeCards(@, meld.cards),
                   !.lastPlay = <<[player |-> s.players[p].id, meld |-> meld]>>,
                   !.establishedMeldType =
                      IF @ = "undefined" THEN meld.type ELSE @,
                   !.consecutivePasses = 0,
                   !.playHistory = Append(@, [player |-> s.players[p].id,
                                              action |-> "play",
                                              meld |-> <<meld>>])]>>

\* playMeld for the player at index p (1-based): <<result, state after the call>>
playMeld(s, p, meld) ==
  IF ~hasCards(s.players[p].hand, meld.cards) THEN <<FALSE, s>>
  ELSE IF ~isLegalPlay(s, meld) THEN <<FALSE, s>>
  ELSE <<TRUE,
         [s EXCEPT !.players[p].hand = removeCards(@, meld.cards),
                   !.lastPlay = <<[player |-> s.players[p].id, meld |-> meld]>>,
                   !.establishedMeldType =
                      IF @ = "undefined" THEN meld.type ELSE @,
                   !.consecutivePasses = 0,
                   !.playHistory = Append(@, [player |-> s.players[p].id,
                                              action |-> "play",
                                              meld |-> <<meld>>])]>>

\* The last play's player becomes the leader and the current player
LeadByLastPlay(s) ==
  IF s.lastPlay # <<>>
  THEN [s EXCEPT !.currentLeader = s.lastPlay[1].player,
                 !.currentPlayerIndex = PlayerIndex(s, s.lastPlay[1].player)]
  ELSE s

\* Faulty variants of the reset in startNewTrick: one keeps the last play, one
\* keeps the count of passes
ClearTrickKeepingLastPlay(s) ==
  [s EXCEPT !.establishedMeldType = "undefined",
            !.consecutivePasses = 0]

ClearTrickKeepingPasses(s) ==
  [s EXCEPT !.establishedMeldType = "undefined",
            !.lastPlay = <<>>]

\* Reset for new trick
ClearTrick(s) ==
  [s EXCEPT !.establishedMeldType = "undefined",
            !.lastPlay = <<>>,
            !.consecutivePasses = 0]

startNewTrick(s) == ClearTrick(LeadByLastPlay(s))

\* pass for the player at index p (1-based): <<result, state after the call>>;
\* the result is true when a new trick started
\* consecutivePasses++ and the 'pass' entry of the history
CountPass(s, p) ==
  [s EXCEPT !.consecutivePasses = @ + 1,
            !.playHistory = Append(@, [player |-> s.players[p].id,
                                       action |-> "pass",
                                       meld |-> <<>>])]

\* A faulty variant of the test in pass: the trick is only over once every
\* player has passed
TrickAfterPassOffByOne(counted) ==
  IF counted.consecutivePasses >= Len(counted.players)
  THEN <<TRUE, startNewTrick(counted)>>
  ELSE <<FALSE, counted>>

TrickAfterPass(counted) ==
  IF counted.consecutivePasses >= Len(counted.players) - 1
  THEN <<TRUE, startNewTrick(counted)>>
  ELSE <<FALSE, counted>>

pass(s, p) == TrickAfterPass(CountPass(s, p))

\* A faulty variant of nextTurn: the turn goes to the player after the next
nextTurnByTwo(s) ==
  [s EXCEPT !.currentPlayerIndex = (@ + 2) % Len(s.players)]

nextTurn(s) ==
  [s EXCEPT !.currentPlayerIndex = (@ + 1) % Len(s.players)]

\* The melds createMeld makes of each card list in turn, nulls dropped
MeldsOf(cardLists) == Concat([i \in 1..Len(cardLists) |-> createMeld(cardLists[i])])

Singles(hand) == [i \in 1..Len(hand) |-> <<hand[i]>>]

\* The loops of findAllPossibleMelds over one rank group: every i < j, then
\* every i < j < k, in the loops' order
PairLists(cards) ==
  Concat([i \in 1..(Len(cards) - 1) |->
            [d \in 1..(Len(cards) - i) |-> <<cards[i], cards[i + d]>>]])

TripleLists(cards) ==
  Concat([i \in 1..(Len(cards) - 2) |->
            Concat([e \in 1..(Len(cards) - 1 - i) |->
                      [d \in 1..(Len(cards) - i - e) |->
                         <<cards[i], cards[i + e], cards[i + e + d]>>]])])

\* The card lists findAllPossibleMelds hands to createMeld for one rank group:
\* the pairs, the triples, then the four of a kind
GroupLists(cards) ==
  (IF Len(cards) >= 2 /\ ~isJoker(cards[1]) THEN PairLists(cards) ELSE <<>>)
    \o (IF Len(cards) >= 3 THEN TripleLists(cards) ELSE <<>>)
    \o (IF Len(cards) = 4 THEN <<cards>> ELSE <<>>)

AllGroupLists(groups) == Concat([g \in 1..Len(groups) |-> GroupLists(groups[g])])

\* The singles, then group by group; a list createMeld makes no meld of adds
\* nothing
findAllPossibleMelds(hand) ==
  MeldsOf(Singles(hand) \o AllGroupLists(groupByRank(hand)))

findMeldsOfType(hand, type) ==
  SelectSeq(findAllPossibleMelds(hand), LAMBDA m : m.type = type)

GroupsOfFour(groups) == SelectSeq(groups, LAMBDA g : Len(g) = 4)

\* A faulty variant of findBombs: no bomb is found
findBombsNone(hand) == <<>>

findBombs(hand) ==
  SelectSeq(MeldsOf(GroupsOfFour(groupByRank(hand))),
            LAMBDA m : m.type = "fourOfKindBomb")

\* getLegalMoves for the player at index p (1-based)
\* The filter getLegalMoves applies when there is a last play
BeatingLastPlay(s, legalMoves) ==
  IF s.lastPlay # <<>>
  THEN SelectSeq(legalMoves, LAMBDA m : canBeat(m, s.lastPlay[1].meld))
  ELSE legalMoves

\* A faulty variant of getLegalMoves: the leader of an open trick is listed
\* no moves, as a follower before a type is established
getLegalMovesFollowingOnly(s, p) ==
  IF s.establishedMeldType # "undefined"
  THEN BeatingLastPlay(s, findMeldsOfType(s.players[p].hand, s.establishedMeldType)
                            \o findBombs(s.players[p].hand))
  ELSE <<>>

getLegalMoves(s, p) ==
  IF s.players[p].id = s.currentLeader /\ s.establishedMeldType = "undefined"
  THEN findAllPossibleMelds(s.players[p].hand)
  ELSE IF s.establishedMeldType # "undefined"
  THEN BeatingLastPlay(s, findMeldsOfType(s.players[p].hand, s.establishedMeldType)
                            \o findBombs(s.players[p].hand))
  ELSE <<>>

\* checkRoundEnd: <<winner (<<>> for null, else <<id>>), state after the call>>
\* A faulty variant of the counting in checkRoundEnd: the winner is counted a
\* loss as well
RoundWonByAllLose(s, w) ==
  <<<<s.players[w].id>>,
    [s EXCEPT !.players =
       [i \in 1..Len(s.players) |->
          IF s.players[i].id = s.players[w].id
          THEN [s.players[i] EXCEPT !.wins = @ + 1, !.losses = @ + 1]
          ELSE IF Len(s.players[i].hand) > 0
               THEN [s.players[i] EXCEPT !.losses = @ + 1]
               ELSE s.players[i]]]>>

\* The round won by the player at index w (1-based): the winner's wins and the
\* losses of every other player still holding cards are counted
RoundWonBy(s, w) ==
  <<<<s.players[w].id>>,
    [s EXCEPT !.players =
       [i \in 1..Len(s.players) |->
          IF s.players[i].id = s.players[w].id
          THEN [s.players[i] EXCEPT !.wins = @ + 1]
          ELSE IF Len(s.players[i].hand) > 0
               THEN [s.players[i] EXCEPT !.losses = @ + 1]
               ELSE s.players[i]]]>>

\* players.find(p => p.hand.length === 0) over the indices of the empty hands
FirstEmptied(s, empty) ==
  IF empty = {} THEN <<<<>>, s>>
  ELSE RoundWonBy(s, CHOOSE i \in empty : \A j \in empty : i <= j)

checkRoundEnd(s) ==
  FirstEmptied(s, {i \in 1..Len(s.players) : Len(s.players[i].hand) = 0})

\* ------------------------------------------------------------------------
\* ai/BotStrategy.ts.  A decision is [action, meld]; makeDecision gives the set
\* of decisions the calls of Math.random allow.

PassDecision == [action |-> "pass", meld |-> <<>>]

PlayDecision(m) == [action |-> "play", meld |-> <<m>>]

MeldStrength(m) == getMeldStrength(m.type, m.cards)

hasBombInHand(hand) == GroupsOfFour(groupByRank(hand)) # <<>>

has5HInHand(hand) == \E i \in 1..Len(hand) : is5H(hand[i])

RECURSIVE SumSeq(_)
SumSeq(ns) == IF ns = <<>> THEN 0 ELSE Head(ns) + SumSeq(Tail(ns))

evaluateHandStrength(hand) ==
  SumSeq([i \in 1..Len(hand) |->
            IF getSingleRankValue(hand[i]) >= 13 THEN getSingleRankValue(hand[i]) ELSE 0])
    + (IF hasBombInHand(hand) THEN 100 ELSE 0)
    + (IF has5HInHand(hand) THEN 50 ELSE 0)

\* A faulty variant of BeginnerBot.makeDecision: the move is taken from the
\* melds of the hand and not from the list of legal moves
BeginnerDecisionsFromHand(s, p, legalMoves) ==
  {PassDecision}
    \cup {PlayDecision(m) : m \in Range(findAllPossibleMelds(s.players[p].hand))}

\* A faulty variant of BeginnerBot.makeDecision: the leader may pass as well
BeginnerDecisionsMayPass(s, p, legalMoves) ==
  {PassDecision} \cup {PlayDecision(legalMoves[i]) : i \in 1..Len(legalMoves)}

\* BeginnerBot.makeDecision for the player at index p (1-based): a pass where
\* Math.random() < 0.3 may come out true, or any of the legal moves
BeginnerDecisions(s, p, legalMoves) ==
  IF Len(legalMoves) = 0 THEN {PassDecision}
  ELSE (IF s.players[p].id # s.currentLeader THEN {PassDecision} ELSE {})
         \cup {PlayDecision(legalMoves[i]) : i \in 1..Len(legalMoves)}

\* IntermediateBot.makeDecision for the player at index p (1-based)
NonBombs(moves) == SelectSeq(moves, LAMBDA m : ~isBomb(m.type))

\* A faulty variant of IntermediateChoice: the weakest move whatever the hand
IntermediateChoiceWeakest(s, p, sortedMoves) ==
  IF Len(sortedMoves) = 0 THEN {PassDecision} ELSE {PlayDecision(sortedMoves[1])}

\* The decision once the legal moves are sorted by strength, weakest first
IntermediateChoice(s, p, sortedMoves) ==
  IF Len(sortedMoves) = 0 THEN {PassDecision}
  ELSE IF s.players[p].id = s.currentLeader THEN {PlayDecision(sortedMoves[1])}
  ELSE IF Len(s.players[p].hand) <= 5 THEN {PlayDecision(sortedMoves[Len(sortedMoves)])}
  ELSE IF /\ evaluateHandStrength(s.players[p].hand) > 150
          /\ ~isBomb(sortedMoves[1].type)
          /\ Len(NonBombs(sortedMoves)) > 0
       THEN {PlayDecision(NonBombs(sortedMoves)[1])}
  ELSE {PlayDecision(sortedMoves[1])}

IntermediateDecisions(s, p, legalMoves) ==
  IntermediateChoice(s, p, SortByKey(legalMoves, MeldStrength))

\* AdvancedBot.analyzeGameState; shouldPass is left to AdvancedDecisions, where
\* the call of Math.random is resolved
\* Math.min over the opponents' hand sizes
MinOf(sizes) == CHOOSE n \in sizes : \A m \in sizes : n <= m

Analysis(s, p, minOpponentCards) ==
  [cardsRemaining |-> Len(s.players[p].hand),
   isLeader |-> s.players[p].id = s.currentLeader,
   someoneCloseToWinning |-> minOpponentCards <= 3,
   hasBomb |-> hasBombInHand(s.players[p].hand),
   has5H |-> has5HInHand(s.players[p].hand),
   minOpponentCards |-> minOpponentCards]

analyzeGameState(s, p) ==
  Analysis(s, p, MinOf({Len(s.players[i].hand) :
                          i \in {j \in 1..Len(s.players) :
                                   s.players[j].id # s.players[p].id}}))

\* A faulty variant of MayPass: the last play's strength is not looked at
MayPassAnyStrength(s, analysis) ==
  /\ ~analysis.isLeader
  /\ analysis.cardsRemaining > 10
  /\ ~analysis.someoneCloseToWinning

\* The condition under which analyzeGameState draws Math.random() < 0.4
MayPass(s, analysis) ==
  /\ ~analysis.isLeader
  /\ analysis.cardsRemaining > 10
  /\ ~analysis.someoneCloseToWinning
  /\ (IF s.lastPlay # <<>> THEN MeldStrength(s.lastPlay[1].meld) ELSE 0) > 10

\* The ranks of the meld of which the meld takes every card the hand holds
EmptiedRanks(meld, hand) ==
  {r \in {rank(meld.cards[i]) : i \in 1..Len(meld.cards)} :
     /\ Len(CardsOfRank(hand, r)) > 0
     /\ Len(CardsOfRank(hand, r)) = Len(CardsOfRank(meld.cards, r))}

scoreMeld(meld, hand, analysis) ==
  MeldStrength(meld)
    + (IF analysis.isLeader
       THEN (0 - Len(meld.cards) * 2)
              + (IF analysis.cardsRemaining > 10
                 THEN (IF meld.type = "single" THEN 10 ELSE 0)
                        + (IF meld.type = "pair" THEN 8 ELSE 0)
                 ELSE 0)
       ELSE (IF analysis.someoneCloseToWinning /\ ~isBomb(meld.type) THEN 0 - 20 ELSE 0))
    + (IF isBomb(meld.type)
       THEN (IF analysis.someoneCloseToWinning \/ analysis.cardsRemaining <= 5
             THEN 50 ELSE 0 - 30)
       ELSE 0)
    + (IF \E i \in 1..Len(meld.cards) : is5H(meld.cards[i])
       THEN (IF analysis.cardsRemaining <= 3 \/ analysis.minOpponentCards <= 2
             THEN 100 ELSE 0 - 50)
       ELSE 0)
    + 5 * Cardinality(EmptiedRanks(meld, hand))

\* rankMoves: highest score first, ties in the list's order
rankMoves(moves, hand, analysis) ==
  SortByKey(moves, LAMBDA m : 0 - scoreMeld(m, hand, analysis))

\* AdvancedBot.makeDecision for the player at index p (1-based)
\* The decisions once the game state is analysed: the best ranked move, or a
\* pass where shouldPass may come out true
AdvancedChoice(s, p, legalMoves, analysis) ==
  IF Len(legalMoves) = 0 THEN {PassDecision}
  ELSE {PlayDecision(rankMoves(legalMoves, s.players[p].hand, analysis)[1])}
         \cup (IF MayPass(s, analysis) THEN {PassDecision} ELSE {})

AdvancedDecisions(s, p, legalMoves) ==
  AdvancedChoice(s, p, legalMoves, analyzeGameState(s, p))

\* initializeBots: the strategy BotManager.createBot gives each bot id
botStrategies(id) ==
  CASE id = "alice" -> "intermediate"
    [] id = "bob" -> "intermediate"
    [] id = "cat" -> "advanced"
    [] OTHER -> "none"

\* BotManager.createBot(difficulty).makeDecision(player, state, legalMoves)
createBot(difficulty, s, p, legalMoves) ==
  CASE difficulty = "beginner" -> BeginnerDecisions(s, p, legalMoves)
    [] difficulty = "intermediate" -> IntermediateDecisions(s, p, legalMoves)
    [] difficulty = "advanced" -> AdvancedDecisions(s, p, legalMoves)
    [] OTHER -> IntermediateDecisions(s, p, legalMoves)

makeDecision(s, p, legalMoves) ==
  createBot(botStrategies(s.players[p].id), s, p, legalMoves)

\* ------------------------------------------------------------------------
\* cli/InputParser.ts.  A typed token is a sequence of characters; parseCommand
\* has already lower-cased the input line.

LowerChars == <<"a", "b", "c", "d", "g", "h", "i", "j", "k", "q", "s", "t">>

UpperChars == <<"A", "B", "C", "D", "G", "H", "I", "J", "K", "Q", "S", "T">>

\* The character at 0-based index i of `to`, ch itself when i is -1
CharAt(to, i, ch) == IF i >= 0 THEN to[i + 1] ELSE ch

UpperChar(ch) == CharAt(UpperChars, IndexOf(LowerChars, ch), ch)

LowerChar(ch) == CharAt(LowerChars, IndexOf(UpperChars, ch), ch)

toUpperCase(token) == [i \in 1..Len(token) |-> UpperChar(token[i])]

toLowerCase(token) == [i \in 1..Len(token) |-> LowerChar(token[i])]

\* replace(/10/g, 'T')
RECURSIVE ReplaceTen(_)
ReplaceTen(token) ==
  IF Len(token) < 2 THEN token
  ELSE IF token[1] = "1" /\ token[2] = "0"
       THEN <<"T">> \o ReplaceTen(SubSeq(token, 3, Len(token)))
       ELSE <<token[1]>> \o ReplaceTen(Tail(token))

\* normalizeCardNotation once the token is in upper case (`upper`)
NormalizeUpper(token, upper) ==
  IF \/ upper \in {<<"J", "1">>, <<"J", "O", "K", "E", "R">>,
                   <<"J", "O", "K", "E", "R", "1">>}
     \/ toLowerCase(token) = <<"j", "j">>
  THEN <<"J", "1">>
  ELSE IF upper \in {<<"J", "2">>, <<"J", "O", "K", "E", "R", "2">>,
                     <<"B", "I", "G">>, <<"J", "J">>}
  THEN <<"J", "2">>
  ELSE ReplaceTen(upper)

normalizeCardNotation(token) == NormalizeUpper(token, toUpperCase(token))

isValidCardNotation(n) ==
  \/ n = <<"J", "1">>
  \/ n = <<"J", "2">>
  \/ /\ Len(n) = 2
     /\ n[1] \in Range(ranks)
     /\ n[2] \in Range(suits)

\* parsePlayCommand: <<>> for an 'unknown' command (no cards, an invalid
\* notation or no meld), else <<meld>>
parseCardNotations(tokens) ==
  [i \in 1..Len(tokens) |-> normalizeCardNotation(tokens[i])]

MeldOfNotations(cards) ==
  IF Len(cards) = 0 THEN <<>>
  ELSE IF \E i \in 1..Len(cards) : ~isValidCardNotation(cards[i]) THEN <<>>
  ELSE createMeld(cards)

parsePlayCommand(tokens) == MeldOfNotations(parseCardNotations(tokens))

validateMeldAgainstHand(meld, hand) ==
  \A i \in 1..Len(meld.cards) : meld.cards[i] \in Range(hand)

\* ------------------------------------------------------------------------
\* config/ConfigManager.ts.  A configuration is an object of section objects
\* (gameplay, display).  `c` is ConfigManager.config and `d` the object
\* imported from default.json; a section of c is <<>> when it is the very
\* object d holds under that key, and <<object>> when it is an object of its
\* own.  Operations that write give <<c, d>> after the call.

\* default.json, by the values ConfigManager.test.ts reads from it
DefaultJson ==
  [gameplay |-> [roundsToWin |-> 10,
                 botDifficulties |-> <<"intermediate", "intermediate", "advanced">>,
                 botNames |-> <<"Alice", "Bob", "Cat">>,
                 thinkingDelay |-> [min |-> 1000, max |-> 2000]],
   display |-> [showCardColors |-> TRUE, maxHistoryEntries |-> 5]]

\* this.config[key]
Section(c, d, key) == IF c[key] = <<>> THEN d[key] ELSE c[key][1]

\* { ...object, ...fields }
Spread(object, fields) ==
  [f \in DOMAIN object |-> IF f \in DOMAIN fields THEN fields[f] ELSE object[f]]

\* getConfig: { ...this.config }, a new object of the same section objects;
\* the values read from it
getConfig(c, d) == [key \in DOMAIN c |-> Section(c, d, key)]

\* mergeConfig: a section of the update is spread over the base's section into
\* a new object, the other sections stay the objects they are
mergeConfig(c, d, update) ==
  [key \in DOMAIN c |->
     IF key \in DOMAIN update
     THEN <<Spread(Section(c, d, key), update[key])>>
     ELSE c[key]]

updateConfig(c, d, updates) == <<mergeConfig(c, d, updates), d>>

\* resetToDefaults: this.config = defaultConfig
resetToDefaults(c, d) == <<[key \in DOMAIN c |-> <<>>], d>>

getRoundsToWin(c, d) == Section(c, d, "gameplay").roundsToWin

getBotDifficulties(c, d) == Section(c, d, "gameplay").botDifficulties

getThinkingDelay(c, d) == Section(c, d, "gameplay").thinkingDelay

getMaxHistoryEntries(c, d) == Section(c, d, "display").maxHistoryEntries

\* config = this.getConfig(); config.gameplay.<field> = <value>, for each of
\* the fields: the assignments write to the gameplay object of this.config
AssignGameplay(c, d, fields) ==
  IF c.gameplay = <<>>
  THEN <<c, [d EXCEPT !.gameplay = Spread(@, fields)]>>
  ELSE <<[c EXCEPT !.gameplay = <<Spread(@[1], fields)>>], d>>

createSpeedGameConfig(c, d) ==
  AssignGameplay(c, d, [roundsToWin |-> 3,
                        thinkingDelay |-> [min |-> 200, max |-> 500]])

createTournamentConfig(c, d) ==
  AssignGameplay(c, d, [roundsToWin |-> 15,
                        botDifficulties |-> <<"advanced", "advanced", "advanced">>])

createBeginnerConfig(c, d) ==
  AssignGameplay(c, d, [roundsToWin |-> 5,
                        botDifficulties |-> <<"beginner", "beginner", "intermediate">>,
                        thinkingDelay |-> [min |-> 1500, max |-> 3000]])

\* ------------------------------------------------------------------------
\* Bounds of the model

\* Rounds one game runs through
MaxRounds == 2

\* Entries of the play history of one round
MaxHistory == 8

\* Cards of one typed play command
MaxTyped == 2

\* Entries of the play history kept where only the recent ones are
MaxRecent == 3

\* The draws of Math.random for the shuffles the model deals from
DrawsA ==
  <<0, 1, 3, 0, 5, 6, 3, 1, 6, 7, 3, 2, 7, 3, 15, 3, 16>>

DrawsB ==
  <<1, 1, 1, 4, 0, 3, 3, 6, 5, 4, 7, 6, 6, 4, 15, 4, 16>>

ShuffleDraws == {DrawsA, DrawsB}

\* Tokens the human types besides the cards of the own hand
ExtraTokens == {<<"3", "h">>, <<"j", "j">>}

\* The tokens of a typed play command: the hand's cards, in lower case, and the
\* extra tokens
TypedTokens(hand) == {toLowerCase(hand[i]) : i \in 1..Len(hand)} \cup ExtraTokens

\* The cards of the hand at the indices in `indices`, in the hand's order
CardsAt(hand, indices) == SelectSeq(hand, LAMBDA c : IndexOf(hand, c) + 1 \in indices)

\* What the human types after 'play': up to MaxTyped tokens in any order, or
\* any of the hand's cards in the hand's order
TypedCommands(hand) ==
  UNION {[1..n -> TypedTokens(hand)] : n \in 1..MaxTyped}
    \cup {[i \in 1..Len(CardsAt(hand, indices)) |-> toLowerCase(CardsAt(hand, indices)[i])] :
           indices \in SUBSET (1..Len(hand)) \ {{}}}

\* ------------------------------------------------------------------------
\* controllers/GameController.ts: the state of the program

VARIABLES
  state,             \* GameStateManager.state
  pc,                \* where the controller stands
  lastRoundWinnerId, \* GameController.lastRoundWinnerId, "undefined" at first
  skipNextTurn,      \* playRound's local of that name
  call,              \* the last call that wrote to the state, and its result
  pre,               \* GameStateManager.state before that call
  argCards,          \* the cards of the last createMeld call
  madeMeld,          \* the Meld | null that call returned
  keptMeld,          \* a meld an earlier createMeld call returned
  beats,             \* canBeat(madeMeld, keptMeld), "none" before the call
  finishedPlayers,   \* InkGameController.finishedPlayers
  humanFinished,     \* InkGameController.humanFinished
  recentOnly,        \* whether playHistory is kept to its most recent entries
  config,            \* ConfigManager.config
  defaultConfig      \* the object imported from default.json

vars ==
  <<state, pc, lastRoundWinnerId, skipNextTurn, call, pre,
    argCards, madeMeld, keptMeld, beats,
    finishedPlayers, humanFinished, recentOnly, config, defaultConfig>>

\* The part of the state only the InkGameController writes to, with the
\* treatment of the play history, which no step changes
session == <<finishedPlayers, humanFinished, recentOnly>>

\* The part of the state only the ConfigManager writes to
settings == <<config, defaultConfig>>

\* The part of the state only direct calls of the MeldDetector write to
detector == <<argCards, madeMeld, keptMeld, beats>>

\* No call of the MeldDetector has been made
NoDetectorCall ==
  /\ argCards = <<>>
  /\ madeMeld = <<>>
  /\ keptMeld = <<>>
  /\ beats = "none"

\* No Ink session runs, and the play history is kept whole
NoSession ==
  /\ finishedPlayers = {}
  /\ humanFinished = FALSE
  /\ recentOnly = FALSE

\* The ConfigManager as the module is loaded: config is the imported object
NoSettings ==
  /\ config = [gameplay |-> <<>>, display |-> <<>>]
  /\ defaultConfig = DefaultJson

NoCall == [op |-> "none", player |-> "", meld |-> <<>>, ret |-> "void"]

Bool(b) == IF b THEN "true" ELSE "false"

Init ==
  /\ state = initializeGame
  /\ pc = "playRound"
  /\ lastRoundWinnerId = "undefined"
  /\ skipNextTurn = FALSE
  /\ call = NoCall
  /\ pre = initializeGame
  /\ NoDetectorCall
  /\ NoSession
  /\ NoSettings

cur == state.currentPlayerIndex + 1

\* playRound up to its loop: startNewRound(this.lastRoundWinnerId)
StartRound ==
  /\ UNCHANGED <<detector, session, settings>>
  /\ pc = "playRound"
  /\ state.round - 1 < MaxRounds
  /\ \E draws \in ShuffleDraws :
       state' = startNewRound(state, lastRoundWinnerId, shuffle(initializeDeck, draws))
  /\ pc' = "turn"
  /\ call' = [op |-> "startNewRound", player |-> lastRoundWinnerId, meld |-> <<>>,
              ret |-> "void"]
  /\ pre' = state
  /\ UNCHANGED <<lastRoundWinnerId, skipNextTurn>>

\* The entries of the play history the model keeps: all of them, or the most
\* recent ones (getRecentHistory); nothing but the display reads the history
Kept(s) ==
  IF recentOnly /\ Len(s.playHistory) > MaxRecent
  THEN [s EXCEPT !.playHistory = SubSeq(@, Len(@) - MaxRecent + 1, Len(@))]
  ELSE s

\* The turn ends with a pass of the current player
Passed(r) ==
  /\ recentOnly \/ Len(state.playHistory) < MaxHistory
  /\ state' = Kept(r[2])
  /\ skipNextTurn' = r[1]
  /\ pc' = "checkRoundEnd"
  /\ call' = [op |-> "pass", player |-> state.players[cur].id, meld |-> <<>>,
              ret |-> Bool(r[1])]
  /\ pre' = state
  /\ UNCHANGED lastRoundWinnerId

DoPass == Passed(pass(state, cur))

\* A call of playMeld for the current player: an accepted play ends the turn,
\* a declined one leaves the controller where it is
Played(meld, r) ==
  /\ recentOnly \/ Len(state.playHistory) < MaxHistory
  /\ state' = Kept(r[2])
  /\ skipNextTurn' = FALSE
  /\ pc' = IF r[1] THEN "checkRoundEnd" ELSE pc
  /\ call' = [op |-> "playMeld", player |-> state.players[cur].id, meld |-> <<meld>>,
              ret |-> Bool(r[1])]
  /\ pre' = state
  /\ UNCHANGED lastRoundWinnerId

DoPlay(meld) == Played(meld, playMeld(state, cur, meld))

\* The player to act is still in the game (of the controllers only the
\* InkGameController lets a player finish)
Playing == state.players[cur].id \notin finishedPlayers

HumanTurn == pc = "turn" /\ ~state.players[cur].isBot /\ Playing

\* handleHumanTurn with no legal move: the pass is automatic
HumanAutoPass ==
  /\ UNCHANGED <<detector, session, settings>>
  /\ HumanTurn
  /\ Len(getLegalMoves(state, cur)) = 0
  /\ DoPass

\* 'play <cards>': handlePlayCommand declines an illegal meld and a meld of
\* cards not in the hand before it calls playMeld
handlePlayCommand(parsed) ==
  /\ parsed # <<>>
  /\ isLegalPlay(state, parsed[1])
  /\ validateMeldAgainstHand(parsed[1], state.players[cur].hand)
  /\ DoPlay(parsed[1])

HumanPlay ==
  /\ UNCHANGED <<detector, session, settings>>
  /\ HumanTurn
  /\ Len(getLegalMoves(state, cur)) > 0
  /\ \E tokens \in TypedCommands(state.players[cur].hand) :
       handlePlayCommand(parsePlayCommand(tokens))

\* 'move <n>': handleMoveCommand plays the n-th legal move
handleMoveCommand(legalMoves) ==
  \E n \in 1..Len(legalMoves) : DoPlay(legalMoves[n])

HumanMove ==
  /\ UNCHANGED <<detector, session, settings>>
  /\ HumanTurn
  /\ handleMoveCommand(getLegalMoves(state, cur))

\* 'pass'
HumanPass ==
  /\ UNCHANGED <<detector, session, settings>>
  /\ HumanTurn
  /\ Len(getLegalMoves(state, cur)) > 0
  /\ DoPass

\* 'sort rank' and 'sort suit': handleSortCommand
HumanSort ==
  /\ UNCHANGED <<detector, session, settings>>
  /\ HumanTurn
  /\ Len(getLegalMoves(state, cur)) > 0
  /\ \E byRank \in BOOLEAN :
       state' = [state EXCEPT !.players[cur].hand =
                   IF byRank THEN sortBySingleRank(@) ELSE sortBySuit(@)]
  /\ call' = [op |-> "sort", player |-> state.players[cur].id, meld |-> <<>>,
              ret |-> "void"]
  /\ pre' = state
  /\ UNCHANGED <<pc, lastRoundWinnerId, skipNextTurn>>

\* handleBotTurn: a decision to play is played, and passed if playMeld declines
BotPlays(decision, r) ==
  IF decision.action = "play" /\ r[1] THEN Played(decision.meld[1], r) ELSE DoPass

BotTurn ==
  /\ UNCHANGED <<detector, session, settings>>
  /\ pc = "turn"
  /\ state.players[cur].isBot
  /\ Playing
  /\ \E decision \in makeDecision(state, cur, getLegalMoves(state, cur)) :
       BotPlays(decision,
                IF decision.action = "play"
                THEN playMeld(state, cur, decision.meld[1])
                ELSE <<FALSE, state>>)

\* playRound: roundWinner = checkRoundEnd(), then the loop ends, repeats for
\* the same player or goes on to nextTurn
RoundChecked(r) ==
  /\ state' = r[2]
  /\ call' = [op |-> "checkRoundEnd", player |-> "", meld |-> <<>>,
              ret |-> IF r[1] = <<>> THEN "null" ELSE r[1][1]]
  /\ pre' = state
  /\ lastRoundWinnerId' = IF r[1] = <<>> THEN lastRoundWinnerId ELSE r[1][1]
  /\ pc' = IF r[1] # <<>> THEN "roundOver"
           ELSE IF skipNextTurn THEN "turn" ELSE "nextTurn"
  /\ UNCHANGED skipNextTurn

CheckRoundEnd ==
  /\ UNCHANGED <<detector, session, settings>>
  /\ pc = "checkRoundEnd"
  /\ RoundChecked(checkRoundEnd(state))

NextTurn ==
  /\ UNCHANGED <<detector, session, settings>>
  /\ pc = "nextTurn"
  /\ state' = nextTurn(state)
  /\ pc' = "turn"
  /\ call' = [op |-> "nextTurn", player |-> "", meld |-> <<>>, ret |-> "void"]
  /\ pre' = state
  /\ UNCHANGED <<lastRoundWinnerId, skipNextTurn>>

\* checkGameWin: the first player with 10 wins ends the game
WinsToEnd == 10

checkGameWin(s) == \E i \in 1..Len(s.players) : s.players[i].wins >= WinsToEnd

\* startGame after a round: the game ends with a game winner or when the human
\* declines another round
AnswerPlayAgain ==
  /\ UNCHANGED <<detector, session, settings>>
  /\ pc = "roundOver"
  /\ \E again \in BOOLEAN :
       pc' = IF checkGameWin(state) \/ ~again THEN "exit" ELSE "playRound"
  /\ UNCHANGED <<state, lastRoundWinnerId, skipNextTurn, call, pre>>

Next ==
  \/ StartRound
  \/ HumanAutoPass
  \/ HumanPlay
  \/ HumanMove
  \/ HumanPass
  \/ HumanSort
  \/ BotTurn
  \/ CheckRoundEnd
  \/ NextTurn
  \/ AnswerPlayAgain

Spec == Init /\ [][Next]_vars

\* ------------------------------------------------------------------------
\* The controllers run to the end of their rounds: the play history is kept
\* to its most recent entries, so that a round is not cut short

InitRecent ==
  /\ state = initializeGame
  /\ pc = "playRound"
  /\ lastRoundWinnerId = "undefined"
  /\ skipNextTurn = FALSE
  /\ call = NoCall
  /\ pre = initializeGame
  /\ NoDetectorCall
  /\ finishedPlayers = {}
  /\ humanFinished = FALSE
  /\ recentOnly = TRUE
  /\ NoSettings

\* The calls of the game state the controller makes without waiting for the
\* human, and the states in which it makes one
ControllerStep == StartRound \/ HumanAutoPass \/ BotTurn

ControllerRuns ==
  \/ pc = "playRound" /\ state.round - 1 < MaxRounds
  \/ pc = "turn" /\ state.players[cur].isBot
  \/ pc = "turn" /\ Len(getLegalMoves(state, cur)) = 0

\* The human is at the prompt, and completes the turn, by a move that is
\* accepted or by a pass
HumanPrompted == HumanTurn /\ Len(getLegalMoves(state, cur)) > 0

HumanCompletesTurn == (HumanMove \/ HumanPass) /\ pc' = "checkRoundEnd"

\* The human is at the prompt as the leader of an open trick, and opens it
\* with a meld
HumanLeading ==
  /\ HumanPrompted
  /\ state.currentLeader = state.players[cur].id
  /\ state.establishedMeldType = "undefined"

HumanOpensTrick == HumanLeading /\ HumanMove /\ pc' = "checkRoundEnd"

\* The game with the human answering the prompt by 'move <n>' or 'pass', the
\* commands that complete a turn
NextGame ==
  \/ StartRound
  \/ HumanAutoPass
  \/ HumanMove
  \/ HumanPass
  \/ BotTurn
  \/ CheckRoundEnd
  \/ NextTurn
  \/ AnswerPlayAgain

\* GameController.startGame under fair scheduling: the loop runs on (weak
\* fairness of the controller's steps), the human does not stay at the prompt
\* for ever (weak fairness of completing the turn), and a human who leads
\* again and again eventually opens a trick (strong fairness).  The
\* conditions on the steps that call the game state are written out: the step
\* is taken again and again, or it is (in the end, for the strong one) not
\* possible
FairGame ==
  /\ InitRecent
  /\ [][NextGame]_vars
  /\ WF_vars(CheckRoundEnd)
  /\ WF_vars(NextTurn)
  /\ ([]<>~ControllerRuns \/ []<><<ControllerStep>>_vars)
  /\ ([]<>~HumanPrompted \/ []<><<HumanCompletesTurn>>_vars)
  /\ (<>[]~HumanLeading \/ []<><<HumanOpensTrick>>_vars)

\* ------------------------------------------------------------------------
\* controllers/InkGameController.ts.  playRound, handleHumanTurn and
\* handleBotTurn are those of the GameController, but for the players that
\* have finished, which playRound steps over.

\* checkGameWin: players.find(p => p.hand.length === 0), as an index (1-based)
EmptyHanded(s) == {i \in 1..Len(s.players) : Len(s.players[i].hand) = 0}

inkCheckGameWin(s) == CHOOSE i \in EmptyHanded(s) : \A j \in EmptyHanded(s) : i <= j

\* updateGameStats for the winner at index w (1-based)
updateGameStats(s, w) ==
  [s EXCEPT !.players =
     [i \in 1..Len(s.players) |->
        IF s.players[i].id = s.players[w].id
        THEN [s.players[i] EXCEPT !.wins = @ + 1]
        ELSE [s.players[i] EXCEPT !.losses = @ + 1]]]

\* playRound: a player that has finished is stepped over
InkSkipFinished ==
  /\ pc = "turn"
  /\ ~Playing
  /\ state' = nextTurn(state)
  /\ call' = [op |-> "nextTurn", player |-> "", meld |-> <<>>, ret |-> "void"]
  /\ pre' = state
  /\ UNCHANGED <<pc, lastRoundWinnerId, skipNextTurn, detector, session, settings>>

\* startGame goes on to the next round
InkContinue(stats, finished, humanDone) ==
  /\ state' = stats
  /\ finishedPlayers' = finished
  /\ humanFinished' = humanDone
  /\ pc' = "playRound"
  /\ UNCHANGED lastRoundWinnerId

\* 'Play another game?': a new GameStateManager, or the exit
InkPlayAgain(stats, finished, again) ==
  /\ state' = IF again THEN initializeGame ELSE stats
  /\ finishedPlayers' = IF again THEN {} ELSE finished
  /\ humanFinished' = IF again THEN FALSE ELSE humanFinished
  /\ lastRoundWinnerId' = IF again THEN "undefined" ELSE lastRoundWinnerId
  /\ pc' = IF again THEN "playRound" ELSE "exit"

\* startGame after playRound, for the winner at index w: the winner is counted
\* and has finished; the game goes on for the places still open
InkPlaces(w, stats, finished) ==
  IF state.players[w].id = "human" THEN InkContinue(stats, finished, TRUE)
  ELSE IF humanFinished
       THEN (IF Cardinality({i \in 1..Len(state.players) :
                               state.players[i].id \notin finished}) = 1
             THEN \E again \in BOOLEAN : InkPlayAgain(stats, finished, again)
             ELSE InkContinue(stats, finished, humanFinished))
  ELSE InkContinue(stats, finished, humanFinished)

InkWinnerFinishes(w) ==
  /\ InkPlaces(w, [updateGameStats(state, w) EXCEPT !.players[w].hand = <<>>],
               finishedPlayers \cup {state.players[w].id})
  /\ call' = [op |-> "updateGameStats", player |-> state.players[w].id,
              meld |-> <<>>, ret |-> "void"]

InkAfterRound ==
  /\ pc = "roundOver"
  /\ EmptyHanded(state) # {}
  /\ InkWinnerFinishes(inkCheckGameWin(state))
  /\ pre' = state
  /\ UNCHANGED <<skipNextTurn, recentOnly, detector, settings>>

NextInk ==
  \/ StartRound
  \/ InkSkipFinished
  \/ HumanAutoPass
  \/ HumanMove
  \/ HumanPlay
  \/ HumanPass
  \/ BotTurn
  \/ CheckRoundEnd
  \/ NextTurn
  \/ InkAfterRound

SpecInk == InitRecent /\ [][NextInk]_vars

\* The calls of the game state the controller makes for a player who is
\* still playing, and the states in which it makes one
InkTurn ==
  StartRound \/ HumanAutoPass \/ HumanMove \/ HumanPlay \/ HumanPass \/ BotTurn

InkRuns ==
  \/ pc = "playRound" /\ state.round - 1 < MaxRounds
  \/ pc = "turn" /\ Playing

\* The loops of startGame and playRound run on: weak fairness of every step,
\* written out for the steps that call the game state (such a step is taken
\* again and again, or it is not possible)
FairInk ==
  /\ SpecInk
  /\ WF_vars(InkSkipFinished)
  /\ WF_vars(CheckRoundEnd)
  /\ WF_vars(NextTurn)
  /\ WF_vars(InkAfterRound)
  /\ ([]<>~InkRuns \/ []<><<InkTurn>>_vars)

\* The InkGameController that ends the game with the first round won: the
\* winner is counted, then the human is asked for another game
InkUpdateGameStats ==
  /\ pc = "roundOver"
  /\ EmptyHanded(state) # {}
  /\ state' = updateGameStats(state, inkCheckGameWin(state))
  /\ call' = [op |-> "updateGameStats",
              player |-> state.players[inkCheckGameWin(state)].id,
              meld |-> <<>>, ret |-> "void"]
  /\ pre' = state
  /\ pc' = "askPlayNewGame"
  /\ UNCHANGED <<lastRoundWinnerId, skipNextTurn, detector, session, settings>>

InkAskPlayNewGame ==
  /\ pc = "askPlayNewGame"
  /\ \E again \in BOOLEAN :
       /\ state' = IF again THEN initializeGame ELSE state
       /\ lastRoundWinnerId' = IF again THEN "undefined" ELSE lastRoundWinnerId
       /\ pc' = IF again THEN "playRound" ELSE "exit"
       /\ call' = [op |-> "askPlayNewGame", player |-> "human", meld |-> <<>>,
                   ret |-> Bool(again)]
  /\ pre' = state
  /\ UNCHANGED <<skipNextTurn, detector, session, settings>>

NextInkGame ==
  \/ StartRound
  \/ HumanAutoPass
  \/ HumanMove
  \/ HumanPlay
  \/ HumanPass
  \/ BotTurn
  \/ CheckRoundEnd
  \/ NextTurn
  \/ InkUpdateGameStats
  \/ InkAskPlayNewGame

SpecInkGame == InitRecent /\ [][NextInkGame]_vars

\* ------------------------------------------------------------------------
\* GameStateManager called directly, as its test suite calls it: startNewRound
\* first, then any public method in any order, playMeld and pass for the
\* current player

\* Entries of the play history under direct calls
MaxApiHistory == 2

\* Calls of startNewRound under direct calls
MaxApiRounds == 1

\* What a caller passes to startNewRound as the previous round's winner
ApiWinnerIds == {"undefined", "cat", "nobody"}

\* The melds a caller hands to playMeld: the melds of one card, the cards being
\* those of the typed tokens, and the listed legal moves
SingleMelds(hand) ==
  {parsed[1] : parsed \in {parsePlayCommand(<<t>>) : t \in TypedTokens(hand)} \ {<<>>}}

ApiMelds(s) ==
  SingleMelds(s.players[s.currentPlayerIndex + 1].hand)
    \cup Range(getLegalMoves(s, s.currentPlayerIndex + 1))

\* The cards have been dealt
Dealt == pc = "api" /\ state.deck # <<>>

InitApi ==
  /\ state = initializeGame
  /\ pc = "api"
  /\ lastRoundWinnerId = "undefined"
  /\ skipNextTurn = FALSE
  /\ call = NoCall
  /\ pre = initializeGame
  /\ NoDetectorCall
  /\ NoSession
  /\ NoSettings

ApiStartNewRound ==
  /\ UNCHANGED <<detector, session, settings>>
  /\ pc = "api"
  /\ state.round - 1 < MaxApiRounds
  /\ \E draws \in ShuffleDraws, winner \in ApiWinnerIds :
       /\ state' = startNewRound(state, winner, shuffle(initializeDeck, draws))
       /\ call' = [op |-> "startNewRound", player |-> winner, meld |-> <<>>,
                   ret |-> "void"]
  /\ pre' = state
  /\ UNCHANGED <<pc, lastRoundWinnerId, skipNextTurn>>

ApiPlayed(meld, r) ==
  /\ state' = r[2]
  /\ call' = [op |-> "playMeld", player |-> state.players[cur].id, meld |-> <<meld>>,
              ret |-> Bool(r[1])]
  /\ pre' = state
  /\ UNCHANGED <<pc, lastRoundWinnerId, skipNextTurn>>

ApiPlayMeld ==
  /\ UNCHANGED <<detector, session, settings>>
  /\ Dealt
  /\ Len(state.playHistory) < MaxApiHistory
  /\ \E meld \in ApiMelds(state) : ApiPlayed(meld, playMeld(state, cur, meld))

ApiPassed(r) ==
  /\ state' = r[2]
  /\ call' = [op |-> "pass", player |-> state.players[cur].id, meld |-> <<>>,
              ret |-> Bool(r[1])]
  /\ pre' = state
  /\ UNCHANGED <<pc, lastRoundWinnerId, skipNextTurn>>

ApiPass ==
  /\ UNCHANGED <<detector, session, settings>>
  /\ Dealt
  /\ Len(state.playHistory) < MaxApiHistory
  /\ ApiPassed(pass(state, cur))

ApiNextTurn ==
  /\ UNCHANGED <<detector, session, settings>>
  /\ Dealt
  /\ state' = nextTurn(state)
  /\ call' = [op |-> "nextTurn", player |-> "", meld |-> <<>>, ret |-> "void"]
  /\ pre' = state
  /\ UNCHANGED <<pc, lastRoundWinnerId, skipNextTurn>>

ApiRoundChecked(r) ==
  /\ state' = r[2]
  /\ call' = [op |-> "checkRoundEnd", player |-> "", meld |-> <<>>,
              ret |-> IF r[1] = <<>> THEN "null" ELSE r[1][1]]
  /\ pre' = state
  /\ UNCHANGED <<pc, lastRoundWinnerId, skipNextTurn>>

ApiCheckRoundEnd ==
  /\ UNCHANGED <<detector, session, settings>>
  /\ Dealt
  /\ SumSeq([i \in 1..Len(state.players) |-> state.players[i].wins]) < MaxApiRounds
  /\ ApiRoundChecked(checkRoundEnd(state))

NextApi ==
  \/ ApiStartNewRound
  \/ ApiPlayMeld
  \/ ApiPass
  \/ ApiNextTurn
  \/ ApiCheckRoundEnd

SpecApi == InitApi /\ [][NextApi]_vars

\* ------------------------------------------------------------------------
\* MeldDetector called directly, as its test suite calls it: createMeld on a
\* list of cards, createMeld on a second list, then canBeat on the two melds

\* The rank lists the card lists are made of: the lists of the test suite and
\* of the rules' examples, with neighbours of each meld type, a single of
\* every rank, and lists with the jokers J1 and J2
RankPatterns ==
  {<<"5">>, <<"3">>, <<"4">>, <<"6">>, <<"7">>, <<"8">>, <<"9">>, <<"T">>, <<"J">>,
   <<"Q">>, <<"K">>, <<"A">>, <<"2">>, <<"J1">>, <<"J2">>,
   <<"J1", "J1">>, <<"J1", "J2">>, <<"J1", "J1", "J1">>,
   <<"2", "2", "J1", "J1">>, <<"J1", "J1", "J2", "J2">>,
   <<"2", "2", "2", "J1", "J1", "J1">>,
   <<"T", "J", "Q", "K", "J1">>, <<"3", "4", "5", "6", "7", "J2">>,
   <<"5", "5">>, <<"3", "3">>, <<"K", "K">>, <<"3", "5">>,
   <<"5", "5", "5">>, <<"3", "3", "3">>, <<"A", "A", "A">>,
   <<"3", "3", "3", "3">>, <<"5", "5", "5", "5">>, <<"K", "K", "K", "K">>,
   <<"5", "5", "5", "7", "7">>, <<"3", "3", "3", "7", "7">>, <<"7", "7", "7", "5", "5">>,
   <<"3", "3", "4", "4">>, <<"4", "4", "5", "5">>, <<"5", "5", "6", "6">>,
   <<"3", "3", "3", "4", "4", "4">>, <<"4", "4", "4", "5", "5", "5">>,
   <<"3", "4", "5", "6", "7">>, <<"2", "3", "4", "5", "6">>,
   <<"4", "5", "6", "7", "8", "9">>, <<"9", "T", "J", "Q", "K", "A">>,
   <<"A", "2", "3", "4", "5">>, <<"T", "J", "Q", "K", "A">>,
   <<"9", "T", "J", "Q", "K">>, <<"J", "Q", "K", "A">>,
   <<"Q", "K", "A", "2", "3">>}

\* The suits are given to a rank list in the order C, D, H, S, starting up to
\* this many suits in
MaxSuitShift == 1

\* A card list is handed over rotated by up to this many places, as it is or
\* back to front
MaxRotation == 1

\* The cards of a rank list: a joker for J1 and J2, and for the other ranks
\* all hearts (flush), or the suits in turn from the shift on
SuitedCards(pattern, shift, flush) ==
  [i \in 1..Len(pattern) |->
     IF pattern[i] \in {"J1", "J2"}
     THEN <<"J", IF pattern[i] = "J1" THEN "1" ELSE "2">>
     ELSE <<pattern[i],
            IF flush THEN "H" ELSE suits[((i - 1 + shift) % Len(suits)) + 1]>>]

Reordered(s, rotation, backwards) ==
  [i \in 1..Len(s) |->
     s[(((IF backwards THEN Len(s) - i ELSE i - 1) + rotation) % Len(s)) + 1]]

\* The card lists createMeld is called with
DetectorInputs ==
  {Reordered(SuitedCards(pattern, shift, flush), rotation, backwards) \o <<>> :
     pattern \in RankPatterns, shift \in 0..MaxSuitShift, flush \in BOOLEAN,
     rotation \in 0..MaxRotation, backwards \in BOOLEAN}

InitDetector ==
  /\ state = initializeGame
  /\ pc = "detector"
  /\ lastRoundWinnerId = "undefined"
  /\ skipNextTurn = FALSE
  /\ call = NoCall
  /\ pre = initializeGame
  /\ NoDetectorCall
  /\ NoSession
  /\ NoSettings

\* meld = MeldDetector.createMeld(cards); the meld of the call before is kept
\* as the one to compare with.  No list holds a suited card twice; a joker
\* comes once with every copy of the deck (Deck.createMultipleDecks)
CallCreateMeld ==
  /\ pc = "detector"
  /\ keptMeld = <<>>
  /\ \E cs \in DetectorInputs :
       /\ \A i, j \in 1..Len(cs) : (cs[i] = cs[j] /\ i # j) => isJoker(cs[i])
       /\ argCards' = cs
       /\ madeMeld' = createMeld(cs)
  /\ keptMeld' = madeMeld
  /\ beats' = "none"
  /\ UNCHANGED <<state, pc, lastRoundWinnerId, skipNextTurn, call, pre, session, settings>>

\* MeldDetector.canBeat(meld, kept)
CallCanBeat ==
  /\ pc = "detector"
  /\ madeMeld # <<>>
  /\ keptMeld # <<>>
  /\ beats = "none"
  /\ beats' = Bool(canBeat(madeMeld[1], keptMeld[1]))
  /\ UNCHANGED <<argCards, madeMeld, keptMeld>>
  /\ UNCHANGED <<state, pc, lastRoundWinnerId, skipNextTurn, call, pre, session, settings>>

NextDetector ==
  \/ CallCreateMeld
  \/ CallCanBeat

SpecDetector == InitDetector /\ [][NextDetector]_vars

\* ------------------------------------------------------------------------
\* The bots called directly, as their test suite calls them: a game state is
\* set up, a list of legal moves is made for the player to act, and
\* makeDecision of a bot of one of the three difficulties is called

CardsOf(rs, ss) == [i \in 1..Len(rs) |-> <<rs[i], ss[i]>>] \o <<>>

\* The hands of the bot, as addCards keeps them (sorted by single-play value):
\* twelve cards with a four of a kind, the 5H and a 2; eleven cards of little
\* strength; six, four and three cards; nine cards with a run through the 5H;
\* five cards with the four fives
BotHands ==
  {CardsOf(<<"3", "3", "3", "3", "5", "7", "7", "9", "K", "A", "2", "5">>,
           <<"C", "D", "H", "S", "D", "C", "D", "C", "S", "H", "S", "H">>),
   CardsOf(<<"4", "4", "6", "6", "8", "9", "T", "J", "Q", "K", "A">>,
           <<"C", "D", "H", "S", "C", "D", "H", "S", "C", "D", "C">>),
   CardsOf(<<"3", "3", "3", "3", "2", "5">>, <<"C", "D", "H", "S", "H", "H">>),
   CardsOf(<<"5", "9", "2", "5">>, <<"D", "C", "S", "H">>),
   CardsOf(<<"7", "7", "5">>, <<"C", "D", "H">>),
   CardsOf(<<"3", "3", "3", "3", "6", "7", "8", "9", "5">>,
           <<"C", "D", "H", "S", "C", "D", "S", "H", "H">>),
   CardsOf(<<"4", "5", "5", "5", "5">>, <<"C", "C", "D", "S", "H">>)}

\* The cards of the last play, made by the human: none (the bot leads), a
\* single of strength 11, 2 and 13, a pair, a run
LastPlayCards ==
  {<<>>,
   CardsOf(<<"K">>, <<"H">>), CardsOf(<<"4">>, <<"H">>), CardsOf(<<"2">>, <<"D">>),
   CardsOf(<<"4", "4">>, <<"H", "S">>),
   CardsOf(<<"4", "5", "6", "7", "8">>, <<"H", "C", "D", "H", "D">>)}

\* The cards of the deck that are in no hand of the bot and in no last play
SpareCards ==
  SelectSeq(DeckOf(ranks),
            LAMBDA c : /\ \A hand \in BotHands : c \notin Range(hand)
                       /\ \A played \in LastPlayCards : c \notin Range(played))

\* The hand of the player at index i: alice, at index 2, is the bot
HandOf(i, hand, sizes) ==
  CASE i = 1 -> SubSeq(SpareCards, 1, sizes[1])
    [] i = 2 -> hand
    [] i = 3 -> SubSeq(SpareCards, sizes[1] + 1, sizes[1] + sizes[2])
    [] OTHER -> SubSeq(SpareCards, sizes[1] + sizes[2] + 1, sizes[1] + sizes[2] + sizes[3])

\* The state in which alice is to act: as the leader of a new trick, or after
\* the human's play
BotState(hand, played, sizes) ==
  [initializeGame EXCEPT
     !.round = 2,
     !.players = [i \in 1..playerCount |->
                    [@[i] EXCEPT !.hand = sortBySingleRank(HandOf(i, hand, sizes))]],
     !.currentPlayerIndex = 1,
     !.currentLeader = IF played = <<>> THEN "alice" ELSE "human",
     !.establishedMeldType = IF played = <<>> THEN "undefined" ELSE createMeld(played)[1].type,
     !.lastPlay = IF played = <<>> THEN <<>>
                  ELSE <<[player |-> "human", meld |-> createMeld(played)[1]]>>,
     !.deck = DeckOf(ranks),
     !.playHistory = IF played = <<>> THEN <<>>
                     ELSE <<[player |-> "human", action |-> "play",
                             meld |-> createMeld(played)]>>]

\* The states the bots are called in: a hand of the bot, a last play that
\* holds no card of it, and the numbers of cards the human, bob and cat hold
BotStates ==
  {BotState(given[1], given[2], given[3]) :
     given \in {g \in BotHands \X LastPlayCards
                        \X {<<2, 5, 5>>, <<5, 3, 5>>, <<5, 5, 4>>, <<5, 6, 7>>} :
                  Range(g[1]) \cap Range(g[2]) = {}}}

\* The melds of more than three cards (a run, a full house), which
\* getLegalMoves does not look for, that the player at index p holds and may
\* play
LargerLegalMoves(s, p) ==
  SelectSeq(MeldsOf(<<CardsOf(<<"6", "7", "8", "9", "5">>, <<"C", "D", "S", "H", "H">>),
                      CardsOf(<<"3", "3", "3", "7", "7">>, <<"C", "D", "H", "C", "D">>)>>),
            LAMBDA m : hasCards(s.players[p].hand, m.cards) /\ isLegalPlay(s, m))

\* The lists of legal moves handed to makeDecision: the list getLegalMoves
\* gives, that list with the larger legal melds of the hand, and no move
LegalMoveLists(s, p) ==
  {getLegalMoves(s, p), getLegalMoves(s, p) \o LargerLegalMoves(s, p), <<>>}

InitBots ==
  /\ state \in BotStates
  /\ pc = "bots"
  /\ lastRoundWinnerId = "undefined"
  /\ skipNextTurn = FALSE
  /\ call = NoCall
  /\ pre = initializeGame
  /\ NoDetectorCall
  /\ NoSession
  /\ NoSettings

\* decision = bot.makeDecision(player, state, legalMoves)
CallMakeDecision ==
  /\ pc = "bots"
  /\ call = NoCall
  /\ \E difficulty \in {"beginner", "intermediate", "advanced"},
        legalMoves \in LegalMoveLists(state, cur) :
       \E decision \in createBot(difficulty, state, cur, legalMoves) :
         call' = [op |-> "makeDecision", player |-> state.players[cur].id,
                  meld |-> decision.meld, ret |-> decision.action,
                  difficulty |-> difficulty, legalMoves |-> legalMoves]
  /\ pre' = state
  /\ UNCHANGED <<state, pc, lastRoundWinnerId, skipNextTurn>>
  /\ UNCHANGED <<detector, session, settings>>

SpecBots == InitBots /\ [][CallMakeDecision]_vars

\* ------------------------------------------------------------------------
\* The ConfigManager called directly, as its test suite calls it: any of
\* updateConfig, getConfig, the getters, the preset factories and
\* resetToDefaults in any order.  `pre` is <<config, defaultConfig>> before
\* the last call.

\* The updates handed to updateConfig
ConfigUpdates ==
  {[gameplay |-> [roundsToWin |-> 5,
                  botDifficulties |-> <<"beginner", "beginner", "intermediate">>,
                  botNames |-> <<"Alice", "Bob", "Cat">>,
                  thinkingDelay |-> [min |-> 1000, max |-> 2000]]],
   [gameplay |-> [roundsToWin |-> 15,
                  botDifficulties |-> <<"beginner", "beginner", "intermediate">>,
                  botNames |-> <<"Alice", "Bob", "Cat">>,
                  thinkingDelay |-> [min |-> 1000, max |-> 2000]]],
   [display |-> [maxHistoryEntries |-> 3]]}

InitConfig ==
  /\ state = initializeGame
  /\ pc = "config"
  /\ lastRoundWinnerId = "undefined"
  /\ skipNextTurn = FALSE
  /\ call = NoCall
  /\ pre = <<[gameplay |-> <<>>, display |-> <<>>], DefaultJson>>
  /\ NoDetectorCall
  /\ NoSession
  /\ NoSettings

\* A call of the ConfigManager: `after` is <<config, defaultConfig>> after it
ConfigCalled(op, ret, after) ==
  /\ config' = after[1]
  /\ defaultConfig' = after[2]
  /\ call' = [op |-> op, player |-> "", meld |-> <<>>, ret |-> ret]
  /\ pre' = <<config, defaultConfig>>
  /\ UNCHANGED <<state, pc, lastRoundWinnerId, skipNextTurn, detector, session>>

CallUpdateConfig ==
  /\ pc = "config"
  /\ \E updates \in ConfigUpdates :
       ConfigCalled("updateConfig", "void", updateConfig(config, defaultConfig, updates))

CallGetConfig ==
  /\ pc = "config"
  /\ ConfigCalled("getConfig", getConfig(config, defaultConfig), <<config, defaultConfig>>)

\* The getters called
Getter(op, c, d) ==
  CASE op = "getRoundsToWin" -> getRoundsToWin(c, d)
    [] op = "getBotDifficulties" -> getBotDifficulties(c, d)
    [] op = "getThinkingDelay" -> getThinkingDelay(c, d)
    [] op = "getMaxHistoryEntries" -> getMaxHistoryEntries(c, d)

CallGetter ==
  /\ pc = "config"
  /\ \E op \in {"getRoundsToWin", "getBotDifficulties", "getThinkingDelay",
                 "getMaxHistoryEntries"} :
       ConfigCalled(op, Getter(op, config, defaultConfig), <<config, defaultConfig>>)

PresetFactories ==
  {"createSpeedGameConfig", "createTournamentConfig", "createBeginnerConfig"}

Preset(op, c, d) ==
  CASE op = "createSpeedGameConfig" -> createSpeedGameConfig(c, d)
    [] op = "createTournamentConfig" -> createTournamentConfig(c, d)
    [] op = "createBeginnerConfig" -> createBeginnerConfig(c, d)

\* A preset factory returns the copy it has written to
PresetCalled(op, after) == ConfigCalled(op, getConfig(after[1], after[2]), after)

CallCreatePreset ==
  /\ pc = "config"
  /\ \E op \in PresetFactories : PresetCalled(op, Preset(op, config, defaultConfig))

CallResetToDefaults ==
  /\ pc = "config"
  /\ ConfigCalled("resetToDefaults", "void", resetToDefaults(config, defaultConfig))

NextConfig ==
  \/ CallUpdateConfig
  \/ CallGetConfig
  \/ CallGetter
  \/ CallCreatePreset
  \/ CallResetToDefaults

SpecConfig == InitConfig /\ [][NextConfig]_vars

\* ------------------------------------------------------------------------
\* Properties.  `call` is the last call that wrote to the state, `pre` the
\* state before it and `state` the state it left.

\* The index (1-based) of the player the last call was made for
CallIndex == PlayerIndex(pre, call.player) + 1

AcceptedPlay == call.op = "playMeld" /\ call.ret = "true"

RejectedPlay == call.op = "playMeld" /\ call.ret = "false"

\* The indices of the 'play' entries of a play history
PlayEntries(h) == {i \in 1..Len(h) : h[i].action = "play"}

LastPlayEntry(h) == h[CHOOSE i \in PlayEntries(h) : \A j \in PlayEntries(h) : j <= i]

\* The entries after the last 'play' entry: the passes since the last play
PassesSincePlay(h) ==
  Cardinality({i \in 1..Len(h) : \A j \in PlayEntries(h) : j < i})

LastEntryIsPlay(h) == h # <<>> /\ h[Len(h)].action = "play"

Hands(s) == [i \in 1..Len(s.players) |-> s.players[i].hand]

Counters(s) == [i \in 1..Len(s.players) |-> <<s.players[i].wins, s.players[i].losses>>]

\* Every card in a hand or in a meld of the play history, one entry per place
CardsInPlay(s) ==
  Concat(Hands(s))
    \o Concat([i \in 1..Len(s.playHistory) |->
                 IF s.playHistory[i].action = "play"
                 THEN s.playHistory[i].meld[1].cards ELSE <<>>])

\* The melds createMeld makes of any cards of the hand, in the hand's order
HandMelds(hand) ==
  {made[1] : made \in {createMeld(CardsAt(hand, indices)) :
                         indices \in SUBSET (1..Len(hand)) \ {{}}} \ {<<>>}}

\* The melds the properties try for the current player: the melds of the hand's
\* cards and the melds of one typed card
Candidates(s) ==
  HandMelds(s.players[s.currentPlayerIndex + 1].hand)
    \cup SingleMelds(s.players[s.currentPlayerIndex + 1].hand)

Accepts(s, m) == playMeld(s, s.currentPlayerIndex + 1, m)[1]

\* C1: once a meld has been played, the pass that is the (playerCount - 1)-th
\* in a row since that play returns true and resolves the trick: the owner of
\* the last play is the leader and the player to act, no meld type is
\* established, there is no last play and consecutivePasses is 0, and the
\* controller does not advance the turn; an earlier pass returns false and
\* leaves the leader, the established type and the last play as they were
C1_TrickResolvesOnLastPass ==
  /\ (call.op = "pass" /\ PlayEntries(state.playHistory) # {}) =>
       /\ PassesSincePlay(state.playHistory) = playerCount - 1 =>
            /\ call.ret = "true"
            /\ state.currentLeader = LastPlayEntry(state.playHistory).player
            /\ state.players[state.currentPlayerIndex + 1].id =
                 LastPlayEntry(state.playHistory).player
            /\ state.establishedMeldType = "undefined"
            /\ state.lastPlay = <<>>
            /\ state.consecutivePasses = 0
            /\ skipNextTurn
       /\ PassesSincePlay(state.playHistory) < playerCount - 1 =>
            /\ call.ret = "false"
            /\ state.currentLeader = pre.currentLeader
            /\ state.establishedMeldType = pre.establishedMeldType
            /\ state.lastPlay = pre.lastPlay
  /\ (/\ call.op = "checkRoundEnd"
      /\ PlayEntries(pre.playHistory) # {}
      /\ PassesSincePlay(pre.playHistory) = playerCount - 1) =>
       /\ pc = "turn"
       /\ state.players[state.currentPlayerIndex + 1].id =
            LastPlayEntry(pre.playHistory).player

\* A trick resolved by the third pass in a row, in favour of a new leader
C1_Witness ==
  /\ call.op = "pass"
  /\ call.ret = "true"
  /\ PlayEntries(state.playHistory) # {}
  /\ PassesSincePlay(state.playHistory) = playerCount - 1
  /\ state.currentLeader # pre.currentLeader

\* What an accepted playMeld writes, and what it leaves alone
PlayEffect ==
  AcceptedPlay =>
    /\ Hands(state) =
         [i \in 1..Len(pre.players) |->
            IF i = CallIndex
            THEN SelectSeq(pre.players[i].hand,
                           LAMBDA c : c \notin Range(call.meld[1].cards))
            ELSE pre.players[i].hand]
    /\ state.lastPlay = <<[player |-> call.player, meld |-> call.meld[1]]>>
    /\ state.establishedMeldType =
         IF pre.establishedMeldType = "undefined" THEN call.meld[1].type
         ELSE pre.establishedMeldType
    /\ state.consecutivePasses = 0
    /\ state.playHistory =
         Append(pre.playHistory,
                [player |-> call.player, action |-> "play", meld |-> call.meld])
    /\ state.currentLeader = pre.currentLeader
    /\ state.currentPlayerIndex = pre.currentPlayerIndex
    /\ Counters(state) = Counters(pre)
    /\ pc = "checkRoundEnd"
    /\ ~skipNextTurn

\* nextTurn moves the turn to the next seat
TurnAdvances ==
  call.op = "nextTurn" =>
    state = [pre EXCEPT !.currentPlayerIndex = (@ + 1) % playerCount]

\* C2, as stated: an accepted playMeld takes the meld's cards out of that
\* player's hand only, sets lastPlay and, if none is established, the meld
\* type, resets consecutivePasses, appends one 'play' entry and leaves the
\* leader and the counters alone, and the controller then always moves the
\* turn to the next seat
C2_AsStated ==
  /\ PlayEffect
  /\ TurnAdvances
  /\ (call.op = "checkRoundEnd" /\ LastEntryIsPlay(pre.playHistory)) =>
       /\ state.currentPlayerIndex = pre.currentPlayerIndex
       /\ pc = "nextTurn"

\* C2, amended: as above, but the controller moves the turn to the next seat
\* only if the play left cards in the player's hand; after a play of the last
\* cards the round is over and the turn stays where it is
C2_AcceptedPlay ==
  /\ PlayEffect
  /\ TurnAdvances
  /\ (call.op = "checkRoundEnd" /\ LastEntryIsPlay(pre.playHistory)) =>
       /\ state.currentPlayerIndex = pre.currentPlayerIndex
       /\ pc = "nextTurn" <=> pre.players[pre.currentPlayerIndex + 1].hand # <<>>

\* A play accepted over an established type, which leaves cards in the hand
C2_Witness ==
  /\ AcceptedPlay
  /\ pre.establishedMeldType # "undefined"
  /\ pre.consecutivePasses > 0
  /\ state.players[CallIndex].hand # <<>>

\* What holds of every candidate meld whatever the reading of C3: under an
\* established type only a meld that beats the last play and is of that type
\* or a bomb is accepted, and with no established type every meld of cards
\* of the hand is accepted
TypeRule(s, m) ==
  /\ (s.establishedMeldType # "undefined" /\ Accepts(s, m)) =>
       /\ s.lastPlay # <<>>
       /\ canBeat(m, s.lastPlay[1].meld)
       /\ (m.type = s.establishedMeldType \/ isBomb(m.type))
  /\ (/\ s.establishedMeldType # "undefined"
      /\ ~isBomb(m.type)
      /\ m.type # s.establishedMeldType) => ~Accepts(s, m)
  /\ (/\ s.establishedMeldType = "undefined"
      /\ hasCards(s.players[s.currentPlayerIndex + 1].hand, m.cards)) => Accepts(s, m)

\* C3, as stated: the type rule, and a bomb of cards of the hand is accepted
\* whenever the established type is not a bomb type
C3_AsStated ==
  pc = "turn" =>
    \A m \in Candidates(state) :
      /\ TypeRule(state, m)
      /\ (/\ state.establishedMeldType # "undefined"
          /\ ~isBomb(state.establishedMeldType)
          /\ isBomb(m.type)
          /\ hasCards(state.players[cur].hand, m.cards)) => Accepts(state, m)

\* C3, amended: the type rule, and a bomb of cards of the hand is accepted
\* whenever the last play is not a bomb (over a bomb it has to beat it)
C3_EstablishedType ==
  pc = "turn" =>
    \A m \in Candidates(state) :
      /\ TypeRule(state, m)
      /\ (/\ state.establishedMeldType # "undefined"
          /\ state.lastPlay # <<>>
          /\ ~isBomb(state.lastPlay[1].meld.type)
          /\ isBomb(m.type)
          /\ hasCards(state.players[cur].hand, m.cards)) => Accepts(state, m)

\* A bomb played over an established type that is not a bomb type
C3_Witness ==
  /\ AcceptedPlay
  /\ pre.establishedMeldType # "undefined"
  /\ ~isBomb(pre.establishedMeldType)
  /\ isBomb(call.meld[1].type)

\* C4: a playMeld that returns false leaves the whole state as it was: the
\* hands, lastPlay, establishedMeldType, consecutivePasses, currentLeader, the
\* turn pointer and the play history
C4_RejectedPlayIsAtomic ==
  RejectedPlay =>
    /\ Hands(state) = Hands(pre)
    /\ state.lastPlay = pre.lastPlay
    /\ state.establishedMeldType = pre.establishedMeldType
    /\ state.consecutivePasses = pre.consecutivePasses
    /\ state.currentLeader = pre.currentLeader
    /\ state.currentPlayerIndex = pre.currentPlayerIndex
    /\ state.playHistory = pre.playHistory
    /\ state = pre

\* A meld of cards of the hand declined for what the trick asks for
C4_Witness ==
  /\ RejectedPlay
  /\ hasCards(pre.players[CallIndex].hand, call.meld[1].cards)
  /\ pre.establishedMeldType # "undefined"

\* A meld declined for a card the player does not hold
C4_WitnessNotHeld ==
  /\ RejectedPlay
  /\ ~hasCards(pre.players[CallIndex].hand, call.meld[1].cards)

\* C5: once the cards are dealt every card of the deck is in exactly one place,
\* a hand or a meld of the play history, and an accepted play shrinks the
\* player's hand by the number of cards of the meld
C5_CardConservation ==
  /\ state.deck # <<>> =>
       /\ Len(CardsInPlay(state)) = Len(state.deck)
       /\ \A i \in 1..Len(state.deck) : Count(CardsInPlay(state), state.deck[i]) = 1
  /\ AcceptedPlay =>
       Len(state.players[CallIndex].hand) =
         Len(pre.players[CallIndex].hand) - Len(call.meld[1].cards)

C7_RoundOneLedBy3H ==
  (call.op = "startNewRound" /\ pre = initializeGame) =>
    /\ state.currentLeader = state.players[state.currentPlayerIndex + 1].id
    /\ IF \E i \in 1..Len(state.players) : hasCard(state.players[i].hand, <<"3", "H">>)
       THEN hasCard(state.players[state.currentPlayerIndex + 1].hand, <<"3", "H">>)
       ELSE state.currentPlayerIndex = 0

\* The hands hold the whole deck, every card once, dealt round robin
FreshlyDealt(s) ==
  /\ Len(s.deck) = Len(initializeDeck)
  /\ Range(s.deck) = Range(initializeDeck)
  /\ Len(Concat(Hands(s))) = Len(s.deck)
  /\ Range(Concat(Hands(s))) = Range(s.deck)
  /\ \A i \in 1..Len(s.players) :
       Len(s.players[i].hand) =
         Cardinality({k \in 0..(Len(s.deck) - 1) : k % Len(s.players) = i - 1})

C9_AcceptedOnlyIfListed ==
  AcceptedPlay =>
    \E m \in Range(getLegalMoves(pre, CallIndex)) :
      Range(m.cards) = Range(call.meld[1].cards)

\* C10: playMeld accepts every meld of the legal moves listed for the player
\* to act, so a bot's decision to play is never turned into a pass and
\* 'move N' never fails
C10_ListedMovesAreAccepted ==
  pc = "turn" =>
    /\ \A m \in Range(getLegalMoves(state, cur)) : Accepts(state, m)
    /\ state.players[cur].isBot =>
         \A decision \in makeDecision(state, cur, getLegalMoves(state, cur)) :
           decision.action = "play" =>
             /\ decision.meld[1] \in Range(getLegalMoves(state, cur))
             /\ Accepts(state, decision.meld[1])

\* A turn under an established type with a bomb among several listed moves
C10_Witness ==
  /\ pc = "turn"
  /\ state.establishedMeldType # "undefined"
  /\ Len(getLegalMoves(state, cur)) > 1
  /\ \E m \in Range(getLegalMoves(state, cur)) : isBomb(m.type)

\* C11: for the leader with no established type, the listed legal moves hold
\* every meld the classifier recognizes in a subset of the hand, whatever its
\* type
C11_LeaderListsEveryMeld ==
  (/\ pc = "turn"
   /\ state.establishedMeldType = "undefined"
   /\ state.players[cur].id = state.currentLeader) =>
    \A m \in HandMelds(state.players[cur].hand) :
      \E listed \in Range(getLegalMoves(state, cur)) :
        Range(listed.cards) = Range(m.cards)

\* The last play is a pair under the established type pair and the turn is
\* another player's
PairToFollow ==
  /\ pc = "turn"
  /\ state.establishedMeldType = "pair"
  /\ state.lastPlay # <<>>
  /\ state.lastPlay[1].meld.type = "pair"
  /\ state.lastPlay[1].player # state.players[cur].id

C13_LegalMovesDeduplicated ==
  pc = "turn" =>
    /\ \A i, j \in 1..Len(getLegalMoves(state, cur)) :
         i # j => Range(getLegalMoves(state, cur)[i].cards)
                    # Range(getLegalMoves(state, cur)[j].cards)
    /\ \A m \in Range(getLegalMoves(state, cur)) :
         Cardinality(Range(m.cards)) = Len(m.cards)

\* ------------------------------------------------------------------------
\* Properties of the MeldDetector.  `argCards` are the cards of the last
\* createMeld call, `madeMeld` its result, `keptMeld` the meld of the call
\* before and `beats` the result of canBeat(madeMeld, keptMeld).

BombTypes == {"fourOfKindBomb", "straightFlushBomb"}

RunTypes == {"run", "straightFlushBomb"}

\* canBeat has been called on the two melds
Compared == beats # "none"

C15_IrreflexiveAntisymmetric ==
  Compared =>
    /\ Range(madeMeld[1].cards) = Range(keptMeld[1].cards) => beats = "false"
    /\ ~(canBeat(madeMeld[1], keptMeld[1]) /\ canBeat(keptMeld[1], madeMeld[1]))

\* The ranks of the cards of a list
RanksOf(cards) == {rank(c) : c \in Range(cards)}

\* The cards of a list have one suit
OneSuit(cards) == Cardinality({suit(c) : c \in Range(cards)}) = 1

\* createMeld was called
Called == argCards # <<>>

\* The last createMeld call returned a run, or a straight-flush bomb if the
\* cards have one suit
MadeRun ==
  /\ madeMeld # <<>>
  /\ madeMeld[1].type = IF OneSuit(argCards) THEN "straightFlushBomb" ELSE "run"

\* C16: five cards of ranks A,2,3,4,5 are classified as a run (a
\* straight-flush bomb if they have one suit), five cards of ranks T,J,Q,K,A
\* likewise, and the four cards J,Q,K,A are no meld
C16_AceAnchoredRuns ==
  Called =>
    /\ (Len(argCards) = 5 /\ RanksOf(argCards) = {"A", "2", "3", "4", "5"}) => MadeRun
    /\ (Len(argCards) = 5 /\ RanksOf(argCards) = {"T", "J", "Q", "K", "A"}) => MadeRun
    /\ (Len(argCards) = 4 /\ RanksOf(argCards) = {"J", "Q", "K", "A"}) => madeMeld = <<>>

\* The run order, lowest rank first
RunOrder == <<"2", "3", "4", "5", "6", "7", "8", "9", "T", "J", "Q", "K", "A">>

\* The position of the highest of a set of ranks in an order of ranks
TopPosition(order, held) ==
  CHOOSE i \in 1..Len(order) :
    /\ order[i] \in held
    /\ \A j \in (i + 1)..Len(order) : order[j] \notin held

\* canBeat has been called on two runs, or two straight-flush bombs, of the
\* same length
RunsCompared ==
  /\ Compared
  /\ madeMeld[1].type \in RunTypes
  /\ madeMeld[1].type = keptMeld[1].type
  /\ Len(madeMeld[1].cards) = Len(keptMeld[1].cards)

SingleOrder == <<"3", "4", "5", "6", "7", "8", "9", "T", "J", "Q", "K", "A", "2">>

\* The cards of a list that have the rank of three of its cards
TripleOf(cards) ==
  {c \in Range(cards) : Cardinality({d \in Range(cards) : rank(d) = rank(c)}) = 3}

\* C18: the strength of a full house is the single-play rank of the rank of
\* its triple, and 16 for every full house whose triple contains the 5H
C18_FullHouseStrength ==
  (madeMeld # <<>> /\ madeMeld[1].type = "fullHouse") =>
    madeMeld[1].strength =
      IF <<"5", "H">> \in TripleOf(madeMeld[1].cards)
      THEN 16
      ELSE TopPosition(SingleOrder, {rank(c) : c \in TripleOf(madeMeld[1].cards)})

\* C19: the strength of sisters is the position in the single-play order of
\* the rank of their highest group
C19_SistersStrength ==
  (madeMeld # <<>> /\ madeMeld[1].type = "sisters") =>
    madeMeld[1].strength = TopPosition(SingleOrder, RanksOf(madeMeld[1].cards))

\* C20: type and strength depend on the set of cards only: createMeld
\* returns the same type and strength, and getMeldStrength the same value,
\* for every order of the same cards
C20_OrderIndependent ==
  (Called /\ keptMeld # <<>> /\ Range(argCards) = Range(keptMeld[1].cards)) =>
    /\ madeMeld # <<>>
    /\ madeMeld[1].type = keptMeld[1].type
    /\ madeMeld[1].strength = keptMeld[1].strength
    /\ getMeldStrength(madeMeld[1].type, argCards)
         = getMeldStrength(keptMeld[1].type, keptMeld[1].cards)

\* C21: no card list holding a joker is classified as a pair, sisters, a run
\* or a straight-flush bomb
C21_JokersExcluded ==
  (Called /\ \E c \in Range(argCards) : isJoker(c)) =>
    \/ madeMeld = <<>>
    \/ madeMeld[1].type \notin {"pair", "sisters", "run", "straightFlushBomb"}

\* The single-play order with the small and the big joker, lowest rank first
SingleOrderWithJokers == SingleOrder \o <<"J1", "J2">>

\* The single-play value the rules give a card
SinglePlayValue(c) ==
  IF c = <<"5", "H">> THEN 16 ELSE TopPosition(SingleOrderWithJokers, {rank(c)})

\* canBeat has been called on two single cards
SinglesCompared ==
  /\ Compared
  /\ madeMeld[1].type = "single"
  /\ keptMeld[1].type = "single"

DeckCards(Test(_)) == {i \in 1..Len(state.deck) : Test(state.deck[i])}

\* C23: a deck built with jokers holds its suited cards, none of them a
\* joker (52 in the program, four of each rank of the deck here), and exactly
\* two suitless jokers, the small and the big one with the single-play values
\* 14 and 15, and exactly one 5H
C23_DeckJokers ==
  state.deck # <<>> =>
    /\ Cardinality(DeckCards(LAMBDA c : ~isJoker(c) /\ suit(c) \in Range(suits)))
         = 4 * Len(DeckRanks)
    /\ Cardinality(DeckCards(isJoker)) = 2
    /\ \A i \in DeckCards(isJoker) : suit(state.deck[i]) = "none"
    /\ {getSingleRankValue(state.deck[i]) : i \in DeckCards(isJoker)} = {14, 15}
    /\ Cardinality(DeckCards(is5H)) = 1

\* The places (player, position in the hand) where a card is held
HeldAt(s, c) ==
  {<<i, k>> \in (1..Len(s.players)) \X (1..Len(s.deck)) :
     k <= Len(s.players[i].hand) /\ s.players[i].hand[k] = c}

\* C24: after startNewRound, whatever the shuffle, the hands together hold
\* the whole deck, every card in exactly one hand, and the hand sizes differ
\* by at most one, the larger hands at the lower seats (14, 14, 13, 13 with
\* the program's 54 cards)
C24_DealDistributesDeck ==
  call.op = "startNewRound" =>
    /\ Len(state.deck) = Len(initializeDeck)
    /\ Range(state.deck) = Range(initializeDeck)
    /\ \A c \in Range(initializeDeck) : Cardinality(HeldAt(state, c)) = 1
    /\ SumSeq([i \in 1..Len(state.players) |-> Len(state.players[i].hand)])
         = Len(initializeDeck)
    /\ \A i, j \in 1..Len(state.players) :
         i < j => Len(state.players[i].hand) - Len(state.players[j].hand) \in {0, 1}
    /\ \A i \in 1..Len(state.players) :
         Len(state.players[i].hand)
           = (Len(initializeDeck) + Len(state.players) - i) \div Len(state.players)

\* A round has been dealt from a shuffled deck, the hands not all of one size
C24_Witness ==
  /\ call.op = "startNewRound"
  /\ state.deck # initializeDeck
  /\ Len(state.players[1].hand) = Len(state.players[4].hand) + 1

\* ------------------------------------------------------------------------
\* Properties of the bots.  `call` is the makeDecision call: the difficulty
\* of the bot, the list of legal moves it was given and the decision it
\* returned; `state` is the game state it was given, the player to act is
\* the bot.

Decided(difficulty) == call.op = "makeDecision" /\ call.difficulty = difficulty

BotHand == state.players[cur].hand

BotLeads == state.players[cur].id = state.currentLeader

OpponentSizes == {Len(state.players[i].hand) : i \in (1..Len(state.players)) \ {cur}}

Has5H(m) == <<"5", "H">> \in Range(m.cards)

\* C25: a bot of any difficulty returns a pass, or a play whose meld is one
\* of the list of legal moves it was given; given no move it returns a pass
C25_DecisionWithinLegalMoves ==
  call.op = "makeDecision" =>
    /\ call.difficulty \in {"beginner", "intermediate", "advanced"}
    /\ \/ call.ret = "pass" /\ call.meld = <<>>
       \/ /\ call.ret = "play"
          /\ call.meld # <<>>
          /\ call.meld[1] \in Range(call.legalMoves)
    /\ call.legalMoves = <<>> => call.ret = "pass"

\* A bot has played one of several legal moves
C25_Witness ==
  /\ call.op = "makeDecision"
  /\ call.ret = "play"
  /\ Len(call.legalMoves) > 1
  /\ call.meld[1] # call.legalMoves[1]

\* C26: the beginner bot never passes as the leader with a legal move
C26_BeginnerLeaderPlays ==
  (Decided("beginner") /\ BotLeads /\ call.legalMoves # <<>>) => call.ret = "play"

\* The beginner bot has decided as the leader with legal moves
C26_Witness ==
  /\ Decided("beginner")
  /\ BotLeads
  /\ Len(call.legalMoves) > 1
  /\ call.ret = "play"

\* C27: the intermediate bot never passes with a legal move; as the leader it
\* plays a legal move of the least strength, and not leading with five cards
\* or fewer a legal move of the greatest strength
C27_IntermediatePlays ==
  (Decided("intermediate") /\ call.legalMoves # <<>>) =>
    /\ call.ret = "play"
    /\ call.meld[1] \in Range(call.legalMoves)
    /\ BotLeads =>
         \A m \in Range(call.legalMoves) : call.meld[1].strength <= m.strength
    /\ (~BotLeads /\ Len(BotHand) <= 5) =>
         \A m \in Range(call.legalMoves) : call.meld[1].strength >= m.strength

\* The intermediate bot follows with five cards or fewer and with legal moves
\* of different strengths
C27_Witness ==
  /\ Decided("intermediate")
  /\ ~BotLeads
  /\ Len(BotHand) <= 5
  /\ \E m \in Range(call.legalMoves) : m.strength < call.meld[1].strength

\* C28: the intermediate bot, not leading, with more than five cards and a
\* hand strength above 150, plays no bomb when the list of legal moves holds
\* a meld that is not a bomb
C28_IntermediateReservesBombs ==
  (/\ Decided("intermediate")
   /\ ~BotLeads
   /\ Len(BotHand) > 5
   /\ evaluateHandStrength(BotHand) > 150
   /\ \E m \in Range(call.legalMoves) : m.type \notin BombTypes) =>
    (call.ret = "play" => call.meld[1].type \notin BombTypes)

\* The last play's strength, 0 when there is none
LastPlayStrength == IF state.lastPlay = <<>> THEN 0 ELSE state.lastPlay[1].meld.strength

\* The advanced bot's score of a legal move
Score(m) == scoreMeld(m, BotHand, analyzeGameState(state, cur))

\* C29: the advanced bot never passes with a legal move when it leads, when
\* it holds ten cards or fewer, when an opponent holds three cards or fewer,
\* or when the last play's strength is ten or less; it then plays a legal
\* move of the highest score
C29_AdvancedPassesOnlyToConserve ==
  (/\ Decided("advanced")
   /\ call.legalMoves # <<>>
   /\ \/ BotLeads
      \/ Len(BotHand) <= 10
      \/ \E n \in OpponentSizes : n <= 3
      \/ LastPlayStrength <= 10) =>
    /\ call.ret = "play"
    /\ call.meld[1] \in Range(call.legalMoves)
    /\ \A m \in Range(call.legalMoves) : Score(call.meld[1]) >= Score(m)

\* The advanced bot follows a weak play with more than ten cards, no opponent
\* near the end, and plays one of several legal moves
C29_Witness ==
  /\ Decided("advanced")
  /\ ~BotLeads
  /\ Len(BotHand) > 10
  /\ \A n \in OpponentSizes : n > 3
  /\ LastPlayStrength <= 10
  /\ Len(call.legalMoves) > 1
  /\ call.ret = "play"

\* C30: the advanced bot, holding more than three cards while every opponent
\* holds more than two, chooses no meld with the 5H when the list of legal
\* moves holds a meld without it
C30_AdvancedPreserves5H ==
  (/\ Decided("advanced")
   /\ call.ret = "play"
   /\ Len(BotHand) > 3
   /\ \A n \in OpponentSizes : n > 2
   /\ \E m \in Range(call.legalMoves) : ~Has5H(m)) =>
    ~Has5H(call.meld[1])

\* ------------------------------------------------------------------------
\* Properties of the trick state

\* The passes in a row that end with entry i of a play history
PassRun(h, i) ==
  Cardinality({k \in 1..i : \A j \in k..i : h[j].action = "pass"})

\* Entry i is the pass that resolves a trick: every (playerCount - 1)-th pass
\* in a row
ResolvedAt(h, i) ==
  h[i].action = "pass" /\ PassRun(h, i) % (playerCount - 1) = 0

\* The indices of the plays of the current trick: the plays after the last
\* resolving pass
TrickPlays(h) ==
  {i \in PlayEntries(h) : \A j \in i..Len(h) : ~ResolvedAt(h, j)}

FirstOf(indices) == CHOOSE i \in indices : \A j \in indices : i <= j

LastOf(indices) == CHOOSE i \in indices : \A j \in indices : j <= i

\* C33: a meld type is established exactly when there is a last play; the
\* established type is the type of the first meld played in the current trick
\* and the last play is the last meld played in it; the two are cleared only
\* by the pass that resolves a trick and by the start of a round, and then
\* both
C33_TrickStateCoherent ==
  /\ state.establishedMeldType # "undefined" <=> state.lastPlay # <<>>
  /\ TrickPlays(state.playHistory) = {} <=> state.lastPlay = <<>>
  /\ TrickPlays(state.playHistory) # {} =>
       /\ state.establishedMeldType =
            state.playHistory[FirstOf(TrickPlays(state.playHistory))].meld[1].type
       /\ state.lastPlay[1].meld =
            state.playHistory[LastOf(TrickPlays(state.playHistory))].meld[1]
       /\ state.lastPlay[1].player =
            state.playHistory[LastOf(TrickPlays(state.playHistory))].player
  /\ (\/ pre.establishedMeldType # "undefined" /\ state.establishedMeldType = "undefined"
      \/ pre.lastPlay # <<>> /\ state.lastPlay = <<>>) =>
       /\ \/ call.op = "pass" /\ call.ret = "true"
          \/ call.op = "startNewRound"
       /\ state.establishedMeldType = "undefined"
       /\ state.lastPlay = <<>>

\* A bomb lies over a trick of another meld type
C33_Witness ==
  /\ state.lastPlay # <<>>
  /\ state.lastPlay[1].meld.type = "fourOfKindBomb"
  /\ state.establishedMeldType \notin {"undefined", "fourOfKindBomb"}
  /\ Cardinality(TrickPlays(state.playHistory)) > 1

\* C34: consecutivePasses lies between 0 and playerCount - 2 after every call;
\* it is 0 after an accepted play, after the pass that resolves a trick and
\* after the start of a round
C34_ConsecutivePassesBounded ==
  /\ state.consecutivePasses \in 0..(playerCount - 2)
  /\ (\/ AcceptedPlay
      \/ call.op = "pass" /\ call.ret = "true"
      \/ call.op = "startNewRound") => state.consecutivePasses = 0
  /\ (call.op = "pass" /\ call.ret = "false") =>
       state.consecutivePasses = pre.consecutivePasses + 1

\* A pass has brought the count to playerCount - 2, and a pass has resolved a
\* trick
C34_Witness ==
  /\ call.op = "pass"
  /\ call.ret = "true"
  /\ pre.consecutivePasses = playerCount - 2
  /\ state.consecutivePasses = 0

\* The controller is about to ask the current player to act
AskedToAct == pc = "turn"

\* C35: whenever no meld type is established, the player asked to act is the
\* current leader
C35_OpenTrickIsTheLeaders ==
  (AskedToAct /\ state.establishedMeldType = "undefined") =>
    state.players[cur].id = state.currentLeader

\* C36: a player is never asked to act while the last play is their own
C36_NeverFollowsOwnPlay ==
  (AskedToAct /\ state.lastPlay # <<>>) =>
    state.lastPlay[1].player # state.players[cur].id

\* The owner of the last play is asked to act, after the pass that resolved
\* the trick in their favour
C36_Witness ==
  /\ AskedToAct
  /\ call.op = "checkRoundEnd"
  /\ pre.lastPlay = <<>>
  /\ PlayEntries(state.playHistory) # {}
  /\ PassesSincePlay(state.playHistory) = playerCount - 1
  /\ LastPlayEntry(state.playHistory).player = state.players[cur].id

\* ------------------------------------------------------------------------
\* Properties of the ConfigManager

\* C32: after resetToDefaults roundsToWin is 10 and botDifficulties is
\* intermediate, intermediate, advanced; a preset factory leaves what the
\* getters return as it was before the call
C32_ResetRestoresDefaults ==
  /\ call.op = "resetToDefaults" =>
       /\ getRoundsToWin(config, defaultConfig) = 10
       /\ getBotDifficulties(config, defaultConfig) =
            <<"intermediate", "intermediate", "advanced">>
  /\ call.op \in PresetFactories =>
       /\ getRoundsToWin(config, defaultConfig) = getRoundsToWin(pre[1], pre[2])
       /\ getBotDifficulties(config, defaultConfig) = getBotDifficulties(pre[1], pre[2])
       /\ getThinkingDelay(config, defaultConfig) = getThinkingDelay(pre[1], pre[2])

\* ------------------------------------------------------------------------
\* Properties of the Ink game session

\* C31: once a player has finished, every round played on among the others
\* eventually ends with a winner
C31_PlayContinuesForThePlaces ==
  (finishedPlayers # {} /\ pc = "turn") ~> (pc = "roundOver")

\* The rounds the GameStateManager of the session has finished
RoundsFinished == IF pc \in {"roundOver", "askPlayNewGame", "exit"}
                  THEN state.round - 1 ELSE state.round - 2

\* C37: a finished round counts once: after n finished rounds every player's
\* wins and losses add up to n
C37_OneCountPerRound ==
  (pc \in {"roundOver", "askPlayNewGame", "exit"} /\ state.round > 1) =>
    \A i \in 1..Len(state.players) :
      state.players[i].wins + state.players[i].losses = RoundsFinished

\* ------------------------------------------------------------------------
\* Termination of the rounds of the GameController

\* A bot asked to act as the leader of an open trick plays a meld, and the
\* meld is accepted
BotLeaderPlays ==
  (/\ call.op \in {"pass", "playMeld"}
   /\ call.player \notin {"human", ""}
   /\ pre.currentLeader = call.player
   /\ pre.establishedMeldType = "undefined") =>
    (call.op = "playMeld" /\ call.ret = "true")

\* The cards held in all hands
CardsHeld(s) == Len(Concat(Hands(s)))

\* An accepted play takes cards out of the hands
PlayTakesCards ==
  (call.op = "playMeld" /\ call.ret = "true") => CardsHeld(state) < CardsHeld(pre)

\* The pass that resolves a trick follows a play of the trick, unless the
\* trick was the human's to lead
TrickTakesCards ==
  (call.op = "pass" /\ call.ret = "true") =>
    \/ pre.lastPlay # <<>> /\ CardsHeld(state) < Len(state.deck)
    \/ pre.currentLeader = "human"

\* C38: every round terminates: bot leaders always play an accepted meld,
\* every trick resolved after a play has taken cards out of the hands, and
\* from every turn the round reaches its end, a winner with an empty hand
C38_RoundsTerminate ==
  /\ [](BotLeaderPlays /\ PlayTakesCards /\ TrickTakesCards)
  /\ [](pc = "roundOver" => EmptyHanded(state) # {} /\ lastRoundWinnerId # "undefined")
  /\ (pc = "turn" ~> pc = "roundOver")

\* A second round has been played to its end, longer than the recent
\* history holds
C38_Witness ==
  /\ recentOnly
  /\ pc = "roundOver"
  /\ state.round = 3
  /\ Len(state.playHistory) = MaxRecent
  /\ CardsHeld(state) < Len(state.deck) - MaxHistory

====
